---- MODULE Spec2Model ----
(***************************************************************************)
(* A model of the Texas Hold'em engine of poker_server/game/engine:        *)
(* Table (table_oop.py), BettingRound (betting_round.py), Pot (pot.py),    *)
(* Chips (chip_stack.py) and the per-table seat state of Player            *)
(* (player_oop.py, player_hand.py).                                        *)
(*                                                                         *)
(* Every public operation of Table is one action.  An operation is a pure  *)
(* operator from the state before the call to the state after it; the      *)
(* field `last` of the state holds what the call returned and what it      *)
(* logged on the way (round status, pot after collection, payout).         *)
(* A Python exception that escapes the operation ends it where it was      *)
(* raised: what was assigned before stays assigned, and last.exc names     *)
(* the place.                                                              *)
(*                                                                         *)
(* Reading of the source.  Table and BettingRound call Player accessors    *)
(* under older names and arities (get_user_id() for user_id, get_chips_    *)
(* on_table() without the table id, betting_round.status for get_status(), *)
(* Deck() for CardDeck(), deal() for deal_card()).  The model resolves     *)
(* each such call to the method of that purpose that exists, acting on the *)
(* seat state of this table.  The ValueErrors raised by Chips and Player   *)
(* on amounts are behaviour and are modelled.                              *)
(*                                                                         *)
(* The lobby (viewers, leaving a seat, a second table of the GameManager), *)
(* the snapshots of Table.to_dict and the two hand evaluators              *)
(* (hand_evaluator_oop.py, utils/poker_hand_evaluator.py) have actions and *)
(* specifications of their own below.  HandEvaluator reads c.rank.value,   *)
(* c.suit and Card.Rank, which Card (card_oop.py) does not have; they are  *)
(* read as Card.get_rank_value(), Card.get_suit() and the rank values of   *)
(* Card.RANKS.                                                             *)
(***************************************************************************)
EXTENDS Integers, Sequences, FiniteSets, TLC

(***************************************************************************)
(* Configuration and bounds                                                *)
(***************************************************************************)
\* Table._max_players: seats are numbered 1..MaxSeats
MaxSeats == 3
\* Table._big_blind; the small blind posted is BigBlind \div 2
BigBlind == 10
\* User.chips default: the off-table balance of a new user
InitialUserChips == 10000
\* Table._current_dealer_seat_index before the first hand
NoDealer == -1
\* hands started per behaviour (bounds Table._current_hand_number)
MaxHands == 1
\* BET and RAISE actions submitted per betting round
MaxRaises == 1
\* hands started per behaviour of the lobby
MaxDeals == 2

\* user ids of the connected players
Users == {"A", "B", "C"}
\* an empty seat (Python None in Table._seats)
NoPlayer == "-"
\* buy-in amounts each user offers to take_seat
BuyIns ==
    [u \in Users |-> CASE u = "A" -> {0, 50, 1000}
                      [] u = "B" -> {150, 1000}
                      [] OTHER -> {150}]
\* the optional amount of an action: <<>> is None, <<n>> is n
AmountInputs == {<<>>, <<0>>, <<10>>, <<40>>}
\* PlayerAction
ActionKinds == {"FOLD", "CHECK", "CALL", "BET", "RAISE", "ALL_IN"}
\* relative hand strengths rank_hands can report at a showdown
Ranks == {1, 2}

\* Card.RANKS, lowest first; Card.get_rank_value is the index, from 0
RANKS == <<"2", "3", "4", "5", "6", "7", "8", "9", "T", "J", "Q", "K", "A">>
\* Card.SUITS
SUITS == {"C", "D", "H", "S"}
\* the ids of the GameManager's tables: T1 is the table modelled in full
Tables == {"T1", "T2"}
\* the first six cards dealt by a shuffled deck, one order per shuffle
Shuffles ==
    {<<<<"A", "S">>, <<"K", "S">>, <<"7", "D">>, <<"7", "H">>, <<"2", "C">>, <<"9", "C">>>>,
     <<<<"7", "D">>, <<"2", "C">>, <<"A", "S">>, <<"9", "C">>, <<"K", "S">>, <<"7", "H">>>>}
\* the deal of the hands whose card values are not looked at
FirstDeck ==
    <<<<"A", "S">>, <<"K", "S">>, <<"7", "D">>, <<"7", "H">>, <<"2", "C">>, <<"9", "C">>>>

VARIABLES
    status,     \* Table._status
    seats,      \* Table._seats: seat number -> user id or NoPlayer
    balance,    \* User.chips: off-table balance per user
    chips,      \* seat state 'chips_on_table' per user
    bet,        \* PlayerHand._current_bet_in_hand per user
    hstatus,    \* PlayerHand._status per user
    lastAct,    \* PlayerHand._last_action per user
    hole,       \* number of hole cards held (PlayerHand._cards)
    cards,      \* the hole cards held (PlayerHand._cards), as dealt
    pot,        \* Pot._main_pot_chips (no side pot is ever created)
    community,  \* number of community cards on the board
    dealer,     \* Table._current_dealer_seat_index
    handNo,     \* Table._current_hand_number
    round,      \* Table._betting_round (round.open = FALSE: None)
    viewers,    \* Table._viewers: the user ids in the viewer map
    viewing,    \* the users whose Player._viewing_tables holds this table
    other,      \* the second table of the GameManager, same fields
    last,       \* return value and log of the last operation
    snap,       \* what the last Table.to_dict returned
    ev          \* inputs and results of the HandEvaluator calls

vars == <<status, seats, balance, chips, bet, hstatus, lastAct, hole, cards,
          pot, community, dealer, handNo, round, viewers, viewing, other,
          last, snap, ev>>

\* the state as one record, so that operations are operators on states
State ==
    [status |-> status, seats |-> seats, balance |-> balance, chips |-> chips,
     bet |-> bet, hstatus |-> hstatus, lastAct |-> lastAct, hole |-> hole,
     cards |-> cards, pot |-> pot, community |-> community, dealer |-> dealer,
     handNo |-> handNo, round |-> round, viewers |-> viewers,
     viewing |-> viewing, other |-> other, last |-> last]

Commit(s) ==
    /\ status' = s.status
    /\ seats' = s.seats
    /\ balance' = s.balance
    /\ chips' = s.chips
    /\ bet' = s.bet
    /\ hstatus' = s.hstatus
    /\ lastAct' = s.lastAct
    /\ hole' = s.hole
    /\ cards' = s.cards
    /\ pot' = s.pot
    /\ community' = s.community
    /\ dealer' = s.dealer
    /\ handNo' = s.handNo
    /\ round' = s.round
    /\ viewers' = s.viewers
    /\ viewing' = s.viewing
    /\ other' = s.other
    /\ last' = s.last

(***************************************************************************)
(* Helpers                                                                 *)
(***************************************************************************)
RECURSIVE SumOver(_, _)
SumOver(f, S) ==
    IF S = {} THEN 0
    ELSE LET x == CHOOSE y \in S : TRUE IN f[x] + SumOver(f, S \ {x})

Max(a, b) == IF a >= b THEN a ELSE b

Min(a, b) == IF a <= b THEN a ELSE b

SeqToSet(q) == {q[i] : i \in 1..Len(q)}

\* q read circularly from position k (1-based)
RotateFrom(q, k) ==
    [i \in 1..Len(q) |-> q[((k - 1 + i - 1) % Len(q)) + 1]]

\* BettingRound before Table creates one (Table._betting_round = None)
NoRound ==
    [open |-> FALSE, players |-> <<>>, status |-> "none", maxBet |-> 0,
     idx |-> 0, bets |-> [u \in Users |-> 0], raised |-> FALSE,
     lastRaise |-> 0, starter |-> NoPlayer, preflop |-> FALSE,
     nActive |-> 0, acts |-> <<>>]

\* a Table as its constructor leaves it, with no seat state of any player
NoTable ==
    [status |-> "waiting_for_players",
     seats |-> [i \in 1..MaxSeats |-> NoPlayer],
     chips |-> [u \in Users |-> 0], bet |-> [u \in Users |-> 0],
     hstatus |-> [u \in Users |-> "NOT_SEATED"],
     lastAct |-> [u \in Users |-> "NONE"],
     hole |-> [u \in Users |-> 0], cards |-> [u \in Users |-> <<>>],
     pot |-> 0, community |-> 0, dealer |-> NoDealer, handNo |-> 0,
     round |-> NoRound, viewers |-> {}, viewing |-> {}]

\* what an operation reports before it has done anything
NoLast ==
    [op |-> "none", tid |-> "T1", pid |-> NoPlayer, action |-> "none",
     result |-> "none", inner |-> "none", why |-> "", exc |-> "",
     roundStatus |-> "none", seat |-> 0, buyIn |-> 0, watched |-> FALSE,
     acts |-> <<>>,
     nActive |-> 0, preflop |-> FALSE, bb |-> NoPlayer, collected |-> FALSE, potBefore |-> 0,
     potAfter |-> 0, payout |-> FALSE, potAtPayout |-> 0,
     stacksAtPayout |-> 0,
     paid |-> [u \in Users |-> 0], contrib |-> [u \in Users |-> 0],
     allin |-> {}, compared |-> FALSE, shown |-> 0, board |-> 0,
     dealerBefore |-> NoDealer, drawn |-> 0]

\* an exception raised at `where` escapes the operation
Raise(s, where) ==
    [s EXCEPT !.last.exc = where, !.last.result = "raise"]

\* the operation returns False from state s0, having logged `why`
Reject(s0, op, p, why) ==
    [s0 EXCEPT !.last = [NoLast EXCEPT !.op = op, !.pid = p,
                                       !.result = "reject", !.why = why]]

Raised(s) == s.last.exc # ""

(***************************************************************************)
(* Chips (chip_stack.py)                                                   *)
(***************************************************************************)
\* Chips.add raises ValueError unless amount > 0
ChipsAddOk(amount) == amount > 0

\* Chips.remove without the test of the balance
ChipsRemoveAny(stack, amount) == amount > 0

\* Chips.remove raises ValueError unless 0 < amount <= balance
ChipsRemoveOk(stack, amount) == amount > 0 /\ stack >= amount

\* Chips.can_afford: False for a negative amount
ChipsCanAfford(stack, amount) == amount >= 0 /\ stack >= amount

(***************************************************************************)
(* Seats (table_oop.py, player_oop.py)                                     *)
(***************************************************************************)
IsSeated(s, p) == \E i \in 1..MaxSeats : s.seats[i] = p

SeatOf(s, p) == CHOOSE i \in 1..MaxSeats : s.seats[i] = p

NumSeated(s) == Cardinality({i \in 1..MaxSeats : s.seats[i] # NoPlayer})

\* Table.get_seated_players: the seated players in seat order
SeatedSeq(s) ==
    LET F[i \in 0..MaxSeats] ==
            IF i = 0 THEN <<>>
            ELSE IF s.seats[i] = NoPlayer THEN F[i - 1]
            ELSE Append(F[i - 1], s.seats[i])
    IN F[MaxSeats]

\* every seated player counts, with or without chips
CountsAsActiveSeated(hs, stack) == hs # "NOT_SEATED"

\* the test of Table.get_active_players_in_hand
CountsAsActive(hs, stack) == hs \notin {"FOLDED", "SITTING_OUT"} /\ stack > 0

\* Table.get_active_players_in_hand
ActivePlayersInHand(s) ==
    SelectSeq(SeatedSeq(s), LAMBDA p : CountsAsActive(s.hstatus[p], s.chips[p]))

\* what Table.remove_viewer does for a user in the viewer map: the entry is
\* popped and Player.remove_viewing_table drops the table
DropViewer(s, p) ==
    IF p \in s.viewers
    THEN [s EXCEPT !.viewers = @ \ {p}, !.viewing = @ \ {p}]
    ELSE s

\* the viewer removal of take_seat skipped
KeepViewerOnSeating(s, p) == s

\* take_seat, before the buy-in: a player viewing this table leaves its
\* viewers
UnviewOnSeating(s, p) == IF p \in s.viewing THEN DropViewer(s, p) ELSE s

\* take_seat making the table READY_TO_START whatever its status was
TakeSeatAlwaysReady(s0, p, seat, buyIn) ==
    LET s == [s0 EXCEPT !.last = [NoLast EXCEPT !.op = "take_seat", !.pid = p,
                                                !.seat = seat, !.buyIn = buyIn,
                                                !.watched = p \in s0.viewing]]
    IN IF ~(1 <= seat /\ seat <= MaxSeats)
       THEN Reject(s0, "take_seat", NoPlayer, "seat out of bounds")
       ELSE IF s.seats[seat] # NoPlayer
       THEN Reject(s0, "take_seat", NoPlayer, "seat occupied")
       ELSE IF IsSeated(s, p)
       THEN Reject(s0, "take_seat", NoPlayer, "already seated")
       ELSE IF s.balance[p] < buyIn
       THEN Reject(s0, "take_seat", NoPlayer, "insufficient chips")
       ELSE IF buyIn <= 0 \* perform_buy_in raises, take_seat catches
       THEN [Reject(UnviewOnSeating(s0, p), "take_seat", NoPlayer, "buy-in error")
                EXCEPT !.last.watched = p \in s0.viewing]
       ELSE LET t == [UnviewOnSeating(s, p) EXCEPT
                               !.chips[p] = buyIn,
                               !.balance[p] = @ - buyIn,
                               !.bet[p] = 0,
                               !.hole[p] = 0,
                               !.cards[p] = <<>>,
                               !.lastAct[p] = "NONE",
                               !.hstatus[p] = "WAITING_FOR_NEW_HAND",
                               !.seats[seat] = p,
                               !.last.result = "accept"]
            IN IF NumSeated(t) >= 2
               THEN [t EXCEPT !.status = "ready_to_start"]
               ELSE t

\* Table.take_seat, with Player.perform_buy_in and set_seated_data_for_table
TakeSeat(s0, p, seat, buyIn) ==
    LET s == [s0 EXCEPT !.last = [NoLast EXCEPT !.op = "take_seat", !.pid = p,
                                                !.seat = seat, !.buyIn = buyIn,
                                                !.watched = p \in s0.viewing]]
    IN IF ~(1 <= seat /\ seat <= MaxSeats)
       THEN Reject(s0, "take_seat", NoPlayer, "seat out of bounds")
       ELSE IF s.seats[seat] # NoPlayer
       THEN Reject(s0, "take_seat", NoPlayer, "seat occupied")
       ELSE IF IsSeated(s, p)
       THEN Reject(s0, "take_seat", NoPlayer, "already seated")
       ELSE IF s.balance[p] < buyIn
       THEN Reject(s0, "take_seat", NoPlayer, "insufficient chips")
       ELSE IF buyIn <= 0 \* perform_buy_in raises, take_seat catches
       THEN [Reject(UnviewOnSeating(s0, p), "take_seat", NoPlayer, "buy-in error")
                EXCEPT !.last.watched = p \in s0.viewing]
       ELSE LET t == [UnviewOnSeating(s, p) EXCEPT
                               !.chips[p] = buyIn,
                               !.balance[p] = @ - buyIn,
                               !.bet[p] = 0,
                               !.hole[p] = 0,
                               !.cards[p] = <<>>,
                               !.lastAct[p] = "NONE",
                               !.hstatus[p] = "WAITING_FOR_NEW_HAND",
                               !.seats[seat] = p,
                               !.last.result = "accept"]
            IN IF NumSeated(t) >= 2 /\ t.status = "waiting_for_players"
               THEN [t EXCEPT !.status = "ready_to_start"]
               ELSE t

(***************************************************************************)
(* Player hand state (player_oop.py, player_hand.py)                       *)
(***************************************************************************)
InHand(s, p) == s.hstatus[p] \in {"ACTIVE", "ALL_IN"}

\* Player.fold with a hand status kept per player and not per table
FoldAtEveryTable(s, p) ==
    [s EXCEPT !.hstatus[p] = "FOLDED", !.lastAct[p] = "FOLD",
              !.other.hstatus[p] = IF @ = "NOT_SEATED" THEN @ ELSE "FOLDED"]

\* Player.fold
Fold(s, p) == [s EXCEPT !.hstatus[p] = "FOLDED", !.lastAct[p] = "FOLD"]

\* Player.go_all_in raises ValueError when the table stack is empty
GoAllInOk(stack) == stack # 0

\* Player.go_all_in, once past its checks
GoAllIn(s, p) ==
    [s EXCEPT !.bet[p] = @ + s.chips[p],
              !.chips[p] = 0,
              !.hstatus[p] = "ALL_IN",
              !.lastAct[p] = "ALL_IN"]

\* MoveToBet with the chips left on the stack
MoveToBetKeepingStack(s, p, amount) ==
    [s EXCEPT !.bet[p] = @ + amount,
              !.round.bets[p] = @ + amount]

\* remove_chips_from_table then add_to_current_bet, and the round's record
MoveToBet(s, p, amount) ==
    [s EXCEPT !.chips[p] = @ - amount,
              !.bet[p] = @ + amount,
              !.round.bets[p] = @ + amount]

(***************************************************************************)
(* Pot (pot.py)                                                            *)
(***************************************************************************)
\* Pot.get_total_pot_size: _side_pots stays empty, collect_round_bets never
\* creates one
TotalPotSize(s) == s.pot

\* what Pot.collect_round_bets adds to the main pot
RoundContribution(bets) == SumOver(bets, Users)

\* Pot.collect_round_bets: everything goes to the main pot
CollectRoundBets(s) ==
    LET total == RoundContribution(s.round.bets)
    IN IF ~ChipsAddOk(total) THEN Raise(s, "collect_round_bets")
       ELSE [s EXCEPT !.pot = @ + total]

(***************************************************************************)
(* End of hand and payout (table_oop.py)                                   *)
(***************************************************************************)
\* end_hand leaving every seated player WAITING_FOR_NEW_HAND
EndHandAllWaiting(s) ==
    LET seated == {u \in Users : IsSeated(s, u)}
    IN [s EXCEPT
          !.community = 0,
          !.pot = 0,
          !.round = NoRound,
          !.hole = [u \in Users |-> IF u \in seated THEN 0 ELSE @[u]],
          !.cards = [u \in Users |-> IF u \in seated THEN <<>> ELSE @[u]],
          !.bet = [u \in Users |-> IF u \in seated THEN 0 ELSE @[u]],
          !.lastAct = [u \in Users |-> IF u \in seated THEN "NONE" ELSE @[u]],
          !.hstatus = [u \in Users |->
                         IF u \notin seated THEN @[u]
                         ELSE "WAITING_FOR_NEW_HAND"],
          !.status = IF NumSeated(s) < 2 THEN "waiting_for_players"
                     ELSE "ready_to_start"]

\* Table.end_hand
EndHand(s) ==
    LET seated == {u \in Users : IsSeated(s, u)}
    IN [s EXCEPT
          !.community = 0,
          !.pot = 0,
          !.round = NoRound,
          !.hole = [u \in Users |-> IF u \in seated THEN 0 ELSE @[u]],
          !.cards = [u \in Users |-> IF u \in seated THEN <<>> ELSE @[u]],
          !.bet = [u \in Users |-> IF u \in seated THEN 0 ELSE @[u]],
          !.lastAct = [u \in Users |-> IF u \in seated THEN "NONE" ELSE @[u]],
          !.hstatus = [u \in Users |->
                         IF u \notin seated THEN @[u]
                         ELSE IF s.chips[u] = 0 THEN "SITTING_OUT"
                         ELSE "WAITING_FOR_NEW_HAND"],
          !.status = IF NumSeated(s) < 2 THEN "waiting_for_players"
                     ELSE "ready_to_start"]

\* HandEvaluator.rank_hands is called by Table and defined nowhere in the
\* repository: the hands with the best reported strength, strengths being
\* any the deal can produce
BestHands(hands, ranks) ==
    {p \in hands : \A q \in hands : ranks[q] <= ranks[p]}

\* the share of each of n tied winners
SplitAmount(total, n) == total \div n

\* the table stacks of the seated players, summed
SeatedStacks(s) == SumOver(s.chips, {u \in Users : IsSeated(s, u)})

\* the log of a payout, taken before any chip moves
LogPayout(s, compared) ==
    [s EXCEPT !.last.payout = TRUE,
              !.last.potAtPayout = TotalPotSize(s),
              !.last.stacksAtPayout = SeatedStacks(s),
              !.last.contrib = s.bet,
              !.last.allin = {u \in Users : IsSeated(s, u) /\ s.hstatus[u] = "ALL_IN"},
              !.last.compared = compared,
              !.last.shown = Cardinality({u \in Users : IsSeated(s, u) /\ InHand(s, u)}),
              !.last.board = s.community]

\* Player.add_chips_to_table of a payout
Credit(s, p, amount) ==
    [s EXCEPT !.chips[p] = @ + amount, !.last.paid[p] = @ + amount]

RECURSIVE CreditAll(_, _, _)
CreditAll(s, winners, amount) ==
    IF winners = {} THEN s
    ELSE LET w == CHOOSE x \in winners : TRUE
         IN CreditAll(Credit(s, w, amount), winners \ {w}, amount)

\* Table._determine_winner_and_distribute_pot
DetermineWinnerAndDistributePot(s, skipShowdown, ranks) ==
    LET inShowdown == SelectSeq(SeatedSeq(s), LAMBDA p : InHand(s, p))
        hands == {p \in SeqToSet(inShowdown) : s.hole[p] > 0}
        winners == BestHands(hands, ranks)
        total == TotalPotSize(s)
    IN IF skipShowdown /\ Len(inShowdown) = 1
       THEN IF ~ChipsAddOk(total) THEN Raise(LogPayout(s, FALSE), "payout")
            ELSE EndHand(Credit(LogPayout(s, FALSE), inShowdown[1], total))
       ELSE IF Len(inShowdown) = 0 THEN EndHand(s)
       ELSE IF hands = {} THEN EndHand(s)
       ELSE IF Cardinality(winners) = 1
       THEN IF ~ChipsAddOk(total) THEN Raise(LogPayout(s, TRUE), "payout")
            ELSE EndHand(CreditAll(LogPayout(s, TRUE), winners, total))
       ELSE LET share == SplitAmount(total, Cardinality(winners))
            IN IF ~ChipsAddOk(share) THEN Raise(LogPayout(s, TRUE), "payout")
               ELSE EndHand(CreditAll(LogPayout(s, TRUE), winners, share))

(***************************************************************************)
(* Turn order and round start (table_oop.py, betting_round.py)             *)
(***************************************************************************)
\* position (1-based) of the dealer's seat among the seated players, 0 if none
DealerPos(s, all) ==
    IF \E i \in 1..Len(all) : SeatOf(s, all[i]) = s.dealer
    THEN CHOOSE i \in 1..Len(all) : SeatOf(s, all[i]) = s.dealer
    ELSE 0

\* Table._get_players_in_betting_order_for_round
PlayersInBettingOrder(s) ==
    LET all == SeatedSeq(s)
        act == SelectSeq(all, LAMBDA p : InHand(s, p))
        dpos == DealerPos(s, all)
    IN IF act = <<>> THEN <<>>
       ELSE IF dpos = 0 THEN act
       ELSE IF s.community > 0 \/ s.handNo > 0
       THEN SelectSeq(RotateFrom(all, (dpos % Len(all)) + 1),
                      LAMBDA p : InHand(s, p))
       ELSE act

\* BettingRound.__init__
NewRound(s, order, isPreFlop) ==
    [open |-> TRUE, players |-> order, status |-> "in_progress", maxBet |-> 0,
     idx |-> 0, bets |-> [u \in Users |-> 0], raised |-> FALSE,
     lastRaise |-> BigBlind, starter |-> NoPlayer, preflop |-> isPreFlop,
     nActive |-> Cardinality({p \in SeqToSet(order) : s.hstatus[p] = "ACTIVE"}),
     acts |-> <<>>]

\* one blind of BettingRound._handle_blinds: posted, or all-in for less
PostBlind(s, p, amount) ==
    IF ChipsCanAfford(s.chips[p], amount)
    THEN IF ~ChipsRemoveOk(s.chips[p], amount) THEN Raise(s, "post_blind")
         ELSE MoveToBet(s, p, amount)
    ELSE IF ~GoAllInOk(s.chips[p]) THEN Raise(s, "go_all_in")
         ELSE LET t == GoAllIn(s, p)
              IN [t EXCEPT !.round.bets[p] = @ + t.bet[p]]

\* the small blind BettingRound._handle_blinds posts
SmallBlindAmount == BigBlind \div 2

\* BettingRound._handle_blinds
HandleBlinds(s) ==
    LET r == s.round
    IN IF Len(r.players) < 2 THEN CollectRoundBets(s)
       ELSE LET sb == r.players[1]
                bb == r.players[2]
                s1 == PostBlind(s, sb, SmallBlindAmount)
                s2 == PostBlind(s1, bb, BigBlind)
                bbAmount == IF ChipsCanAfford(s1.chips[bb], BigBlind)
                            THEN BigBlind ELSE s2.bet[bb]
                s3 == [s2 EXCEPT !.round.maxBet = Max(@, bbAmount)]
                s4 == CollectRoundBets(s3)
            IN IF Raised(s1) THEN s1
               ELSE IF Raised(s2) THEN s2
               ELSE IF Raised(s4) THEN s4
               ELSE [s4 EXCEPT !.round.bets = [u \in Users |-> 0]]

\* BettingRound._set_first_player_to_act: always the head of the list
FirstPlayerIndex(r) == 0

\* BettingRound.start_round
StartRound(s, isPreFlop) ==
    LET s1 == IF isPreFlop THEN HandleBlinds(s) ELSE s
        i == FirstPlayerIndex(s1.round)
    IN IF Raised(s1) THEN s1
       ELSE [s1 EXCEPT !.round.idx = i,
                       !.round.starter = s1.round.players[i + 1],
                       !.round.status =
                           IF Len(s1.round.players) = 1
                           THEN "no_active_players" ELSE "in_progress"]

(***************************************************************************)
(* Hand phases (table_oop.py)                                              *)
(***************************************************************************)
\* the board opened and the folded players' hole cards taken away
OpenCommunityCardsMucking(s, n) ==
    [s EXCEPT !.community = @ + n,
              !.last.drawn = @ + n + 1,
              !.hole = [u \in Users |-> IF s.hstatus[u] = "FOLDED" THEN 0 ELSE @[u]],
              !.cards = [u \in Users |-> IF s.hstatus[u] = "FOLDED" THEN <<>> ELSE @[u]]]

\* Table._open_community_cards: one card burnt, n opened (the 52-card deck
\* never runs short with at most MaxSeats players); last.drawn counts the
\* deal_card calls
OpenCommunityCards(s, n) ==
    [s EXCEPT !.community = @ + n, !.last.drawn = @ + n + 1]

\* Table._start_new_betting_round; a round of two or more players always
\* starts in_progress, so the branch that ends it at once is never taken
StartNewBettingRound(s, ranks) ==
    LET order == PlayersInBettingOrder(s)
    IN IF Len(order) < 2 THEN DetermineWinnerAndDistributePot(s, TRUE, ranks)
       ELSE StartRound([s EXCEPT !.round = NewRound(s, order, FALSE)], FALSE)

\* Table._advance_hand_phase
AdvanceHandPhase(s, ranks) ==
    IF Len(ActivePlayersInHand(s)) <= 1
    THEN DetermineWinnerAndDistributePot(s, TRUE, ranks)
    ELSE IF s.community = 0
    THEN StartNewBettingRound(OpenCommunityCards(s, 3), ranks)
    ELSE IF s.community \in {3, 4}
    THEN StartNewBettingRound(OpenCommunityCards(s, 1), ranks)
    ELSE IF s.community = 5
    THEN DetermineWinnerAndDistributePot(s, FALSE, ranks)
    ELSE EndHand(s)

\* BettingRound.end_round_and_collect_bets, called on a terminal round
EndRoundAndCollectBets(s) ==
    LET s1 == CollectRoundBets(s)
    IN IF Raised(s1) THEN s1
       ELSE [s1 EXCEPT !.round.bets = [u \in Users |-> 0],
                       !.last.collected = TRUE,
                       !.last.potBefore = s.pot,
                       !.last.potAfter = s1.pot]

\* Table._end_current_betting_round
EndCurrentBettingRound(s, ranks) ==
    LET s1 == EndRoundAndCollectBets(s)
    IN IF Raised(s1) THEN s1
       ELSE AdvanceHandPhase([s1 EXCEPT !.round = NoRound], ranks)

(***************************************************************************)
(* BettingRound.process_action (betting_round.py)                          *)
(***************************************************************************)
\* BettingRound.get_current_player
CurrentPlayer(r) ==
    IF ~r.open \/ r.status # "in_progress" \/ r.players = <<>> THEN NoPlayer
    ELSE IF 0 <= r.idx /\ r.idx < Len(r.players) THEN r.players[r.idx + 1]
    ELSE NoPlayer

\* the turn test alone, without comparing the player's id
NotTurnOfAnyone(r, p) == CurrentPlayer(r) = NoPlayer

\* the turn test of process_action and process_player_action
NotTurnOf(r, p) == CurrentPlayer(r) = NoPlayer \/ CurrentPlayer(r) # p

\* BettingRound.get_min_raise_amount
MinRaiseAmount(r) == Max(BigBlind, r.lastRaise)

\* amount_to_call taken against the player's bets of this round only
AmountToCallInRound(s, p) == s.round.maxBet - s.round.bets[p]

\* the amount_to_call of process_action: the round's maximum against the
\* player's bet in the whole hand
AmountToCall(s, p) == s.round.maxBet - s.bet[p]

\* CHECK is never refused
CheckAlwaysAllowed(toCall) == FALSE

\* CHECK is refused when there is an amount to call
CheckRefused(toCall) == toCall > 0

\* apply_check of core/actions.py raises when the player's chips in the pot
\* are below the amount to call, and assigns nothing
ApplyCheckRaises(chipsInPot, callAmount) == chipsInPot < callAmount

\* every ACTIVE player of the round has matched the maximum
AllMatched(s) ==
    \A p \in SeqToSet(s.round.players) :
        s.hstatus[p] = "ACTIVE" => s.bet[p] >= s.round.maxBet

\* the round's maximum moves up to `total` and the round keeps its starter
RaiseToKeepingStarter(s, p, total) ==
    IF total > s.round.maxBet
    THEN [s EXCEPT !.round.lastRaise = total - s.round.maxBet,
                   !.round.maxBet = total,
                   !.round.raised = TRUE]
    ELSE s

\* the round's maximum moves up to `total`, raised by player p
RaiseTo(s, p, total) ==
    IF total > s.round.maxBet
    THEN [s EXCEPT !.round.lastRaise = total - s.round.maxBet,
                   !.round.maxBet = total,
                   !.round.raised = TRUE,
                   !.round.starter = p]
    ELSE s

\* the accepted action is noted with the chips it moved; `up` tells whether
\* it moved the round's maximum up and is filled in by ProcessAction
Note(s, p, action, moved) ==
    [s EXCEPT !.round.acts =
                  Append(@, [p |-> p, a |-> action, n |-> moved, up |-> FALSE])]

\* the FOLD branch
DoFold(s, p) == Note(Fold(s, p), p, "FOLD", 0)

\* CHECK recording the action before testing the amount to call
DoCheckMarkingFirst(s, p) ==
    LET t == [s EXCEPT !.lastAct[p] = "CHECK"]
    IN IF CheckRefused(AmountToCall(s, p))
       THEN Reject(t, "action", p, "cannot check")
       ELSE Note(t, p, "CHECK", 0)

\* the CHECK branch
DoCheck(s, p) ==
    IF CheckRefused(AmountToCall(s, p))
    THEN Reject(s, "action", p, "cannot check")
    ELSE Note([s EXCEPT !.lastAct[p] = "CHECK"], p, "CHECK", 0)

\* the CALL branch
DoCall(s, p) ==
    LET toCall == AmountToCall(s, p)
    IN IF ~ChipsCanAfford(s.chips[p], toCall)
       THEN Reject(s, "action", p, "cannot afford to call")
       ELSE IF ~ChipsRemoveOk(s.chips[p], toCall) THEN Raise(s, "call")
       ELSE Note([MoveToBet(s, p, toCall) EXCEPT !.lastAct[p] = "CALL"],
                 p, "CALL", toCall)

\* the BET / RAISE branch
DoBetOrRaise(s, p, action, amount) ==
    IF amount = <<>> \/ amount[1] <= 0
    THEN Reject(s, "action", p, "amount must be positive")
    ELSE IF action = "BET" /\ s.round.maxBet > 0
    THEN Reject(s, "action", p, "bet exists")
    ELSE LET a == amount[1]
             total == s.bet[p] + a
             actualRaise == total - s.round.maxBet
         IN IF ~ChipsCanAfford(s.chips[p], a)
            THEN Reject(s, "action", p, "cannot afford to bet")
            ELSE IF total < s.round.maxBet
            THEN Reject(s, "action", p, "below current bet")
            ELSE IF actualRaise < MinRaiseAmount(s.round) /\ s.chips[p] > a
            THEN Reject(s, "action", p, "raise too small")
            ELSE Note([RaiseTo(MoveToBet(s, p, a), p, total)
                          EXCEPT !.lastAct[p] = action],
                      p, action, a)

\* ALL_IN taking the player's total as the round's maximum whatever it is
DoAllInSettingMax(s, p) ==
    LET stack == s.chips[p]
    IN IF ~GoAllInOk(stack) THEN Raise(s, "go_all_in")
       ELSE LET t == GoAllIn(s, p)
                u == [t EXCEPT !.round.maxBet = t.bet[p], !.round.starter = p]
            IN Note([u EXCEPT !.round.bets[p] = @ + stack], p, "ALL_IN", stack)

\* the ALL_IN branch
DoAllIn(s, p) ==
    LET stack == s.chips[p]
    IN IF ~GoAllInOk(stack) THEN Raise(s, "go_all_in")
       ELSE LET t == GoAllIn(s, p)
                u == RaiseTo(t, p, t.bet[p])
            IN Note([u EXCEPT !.round.bets[p] = @ + stack], p, "ALL_IN", stack)

\* BettingRound._advance_to_next_player: the index the turn stops at
RECURSIVE AdvanceFrom(_, _, _)
AdvanceFrom(s, i, fuel) ==
    LET n == Len(s.round.players)
        j == (i + 1) % n
        np == s.round.players[j + 1]
    IN IF np = s.round.starter /\ AllMatched(s) THEN j
       ELSE IF s.hstatus[np] = "ACTIVE" /\ s.bet[np] < s.round.maxBet THEN j
       ELSE IF fuel = 0 THEN j
       ELSE AdvanceFrom(s, j, fuel - 1)

AdvanceToNextPlayer(s) ==
    [s EXCEPT !.round.idx = AdvanceFrom(s, s.round.idx, Len(s.round.players))]

\* the test that closes a round of two or more players in
\* BettingRound._check_round_completion
RoundClosed(s) ==
    /\ AllMatched(s)
    /\ \/ s.round.idx >= Len(s.round.players)
       \/ s.round.players[s.round.idx + 1] = s.round.starter

\* the round closes on matched bets only, however few players are left
CheckRoundCompletionWhenMatched(s) ==
    IF RoundClosed(s) THEN [s EXCEPT !.round.status = "completed"] ELSE s

\* BettingRound._check_round_completion
CheckRoundCompletion(s) ==
    LET inRound == {p \in SeqToSet(s.round.players) : InHand(s, p)}
    IN IF Cardinality(inRound) <= 1
       THEN [s EXCEPT !.round.status = "no_active_players"]
       ELSE IF RoundClosed(s)
       THEN [s EXCEPT !.round.status = "completed"]
       ELSE s

\* BettingRound.process_action; last.inner is what it returns
ProcessAction(s, p, action, amount) ==
    IF NotTurnOf(s.round, p)
    THEN [Reject(s, "action", p, "not your turn") EXCEPT !.last.inner = "reject"]
    ELSE IF s.hstatus[p] \in {"FOLDED", "ALL_IN"}
    THEN [Reject(s, "action", p, "already folded or all-in")
             EXCEPT !.last.inner = "reject"]
    ELSE LET t == CASE action = "FOLD" -> DoFold(s, p)
                    [] action = "CHECK" -> DoCheck(s, p)
                    [] action = "CALL" -> DoCall(s, p)
                    [] action \in {"BET", "RAISE"} ->
                           DoBetOrRaise(s, p, action, amount)
                    [] action = "ALL_IN" -> DoAllIn(s, p)
                    [] OTHER -> Reject(s, "action", p, "invalid action")
         IN IF t.last.result = "reject"
            THEN [t EXCEPT !.last.inner = "reject"]
            ELSE IF Raised(t) THEN [t EXCEPT !.last.inner = "raise"]
            ELSE LET w == [t EXCEPT !.round.acts[Len(t.round.acts)].up =
                                        t.round.maxBet > s.round.maxBet]
                     u == CheckRoundCompletion(AdvanceToNextPlayer(w))
                 IN [u EXCEPT !.last.inner = "accept",
                              !.last.result = "accept",
                              !.last.roundStatus = u.round.status,
                              !.last.acts = u.round.acts,
                              !.last.nActive = u.round.nActive,
                              !.last.preflop = u.round.preflop,
                              !.last.bb = IF u.round.preflop
                                          THEN u.round.players[2]
                                          ELSE NoPlayer]

\* Table.process_player_action
ProcessPlayerAction(s0, p, action, amount, ranks) ==
    LET s == [s0 EXCEPT !.last = [NoLast EXCEPT !.op = "action", !.pid = p,
                                                !.action = action]]
    IN IF s.status # "in_progress" \/ ~s.round.open
       THEN Reject(s, "action", p, "no betting round")
       ELSE IF NotTurnOf(s.round, p)
       THEN Reject(s, "action", p, "not your turn")
       ELSE LET t == ProcessAction(s, p, action, amount)
            IN IF t.last.inner = "accept"
                  /\ t.round.status \in {"completed", "no_active_players"}
               THEN EndCurrentBettingRound(t, ranks)
               ELSE t

(***************************************************************************)
(* Table.start_new_hand (table_oop.py)                                     *)
(***************************************************************************)
\* Table._set_next_dealer: the seat of the next dealer
NextDealerSeat(s) ==
    LET act == ActivePlayersInHand(s)
        pos == DealerPos(s, act)
    IN IF act = <<>> THEN NoDealer
       ELSE IF s.dealer = NoDealer THEN SeatOf(s, act[1])
       ELSE IF pos = 0 \/ pos = Len(act) THEN SeatOf(s, act[1])
       ELSE SeatOf(s, act[pos + 1])

\* the per-player reset at the start of a hand
ResetForNewHand(s) ==
    LET seated == {u \in Users : IsSeated(s, u)}
    IN [s EXCEPT
          !.hole = [u \in Users |-> IF u \in seated THEN 0 ELSE @[u]],
          !.cards = [u \in Users |-> IF u \in seated THEN <<>> ELSE @[u]],
          !.bet = [u \in Users |-> IF u \in seated THEN 0 ELSE @[u]],
          !.lastAct = [u \in Users |-> IF u \in seated THEN "NONE" ELSE @[u]],
          !.hstatus = [u \in Users |->
                         IF u \notin seated THEN @[u]
                         ELSE IF s.chips[u] = 0 THEN "SITTING_OUT"
                         ELSE "ACTIVE"]]

\* two hole cards to every player of Table.get_active_players_in_hand, in
\* that order, from the cards the shuffled deck deals first
DealHoleCards(s, deck) ==
    LET act == ActivePlayersInHand(s)
        pos(u) == CHOOSE i \in 1..Len(act) : act[i] = u
    IN [s EXCEPT
          !.hole = [u \in Users |-> IF u \in SeqToSet(act) THEN 2 ELSE @[u]],
          !.cards = [u \in Users |->
                        IF u \in SeqToSet(act)
                        THEN <<deck[2 * pos(u) - 1], deck[2 * pos(u)]>>
                        ELSE @[u]]]

\* Table.start_new_hand
StartNewHand(s0, ranks, deck) ==
    LET s == [s0 EXCEPT !.last = [NoLast EXCEPT !.op = "start_new_hand",
                                                !.dealerBefore = s0.dealer]]
        n == Len(ActivePlayersInHand(s))
    IN IF n < 2
       THEN [Reject(s, "start_new_hand", NoPlayer, "not enough players")
                EXCEPT !.status =
                    IF NumSeated(s) > 0 /\ n = 0 THEN "game_over"
                    ELSE IF NumSeated(s) >= 2 THEN "ready_to_start"
                    ELSE "waiting_for_players"]
       ELSE LET s1 == [s EXCEPT !.status = "in_progress",
                                !.handNo = @ + 1,
                                !.pot = 0,
                                !.community = 0]
                s2 == ResetForNewHand(s1)
                s3 == [s2 EXCEPT !.dealer = NextDealerSeat(s2)]
            IN IF Len(ActivePlayersInHand(s3)) < 2
               THEN [Reject(s3, "start_new_hand", NoPlayer, "not enough players")
                        EXCEPT !.status = IF NumSeated(s3) >= 2
                                          THEN "ready_to_start"
                                          ELSE "waiting_for_players"]
               ELSE LET s4 == DealHoleCards(s3, deck)
                        order == PlayersInBettingOrder(s4)
                    IN IF order = <<>> THEN EndHand(Reject(s4, "start_new_hand", NoPlayer, "nobody to act"))
                       ELSE LET s5 == StartRound(
                                        [s4 EXCEPT !.round = NewRound(s4, order, TRUE)],
                                        TRUE)
                            IN IF Raised(s5) THEN s5
                               ELSE IF s5.round.status \in {"completed", "no_active_players"}
                               THEN [EndCurrentBettingRound(s5, ranks)
                                        EXCEPT !.last.result = "accept"]
                               ELSE [s5 EXCEPT !.last.result = "accept"]

(***************************************************************************)
(* Viewers and leaving (table_oop.py, game_manager_oop.py)                 *)
(***************************************************************************)
\* add_viewer without the test that refuses a seated player
AddViewerUnchecked(s0, p) ==
    LET s == [s0 EXCEPT !.last = [NoLast EXCEPT !.op = "add_viewer", !.pid = p]]
    IN [s EXCEPT !.viewers = @ \cup {p},
                 !.viewing = @ \cup {p},
                 !.last.result = "accept"]

\* Table.add_viewer
AddViewer(s0, p) ==
    LET s == [s0 EXCEPT !.last = [NoLast EXCEPT !.op = "add_viewer", !.pid = p]]
    IN IF p \in s.viewers THEN [s EXCEPT !.last.result = "accept"]
       ELSE IF IsSeated(s, p) THEN Reject(s0, "add_viewer", p, "seated here")
       ELSE [s EXCEPT !.viewers = @ \cup {p},
                      !.viewing = @ \cup {p},
                      !.last.result = "accept"]

\* GameManager.add_player_to_table_as_viewer, for a connected player and an
\* existing table
AddPlayerToTableAsViewer(s0, p) ==
    IF IsSeated(s0, p) THEN Reject(s0, "add_viewer_gm", p, "seated here")
    ELSE LET t == AddViewer(s0, p)
         IN IF t.last.result = "accept"
            THEN [t EXCEPT !.viewing = @ \cup {p}, !.last.op = "add_viewer_gm"]
            ELSE [t EXCEPT !.last.op = "add_viewer_gm"]

\* Table.remove_viewer
RemoveViewer(s0, p) ==
    LET s == [s0 EXCEPT !.last = [NoLast EXCEPT !.op = "remove_viewer", !.pid = p]]
    IN IF p \in s.viewers
       THEN [DropViewer(s, p) EXCEPT !.last.result = "accept"]
       ELSE Reject(s0, "remove_viewer", p, "not a viewer")

\* Player.leave_table_position: the stack goes back to the balance and the
\* seat state of this table is deleted
LeaveTablePosition(s, p) ==
    [s EXCEPT !.balance[p] = @ + s.chips[p],
              !.chips[p] = 0,
              !.bet[p] = 0,
              !.hole[p] = 0,
              !.cards[p] = <<>>,
              !.lastAct[p] = "NONE",
              !.hstatus[p] = "NOT_SEATED"]

\* Table.remove_player
RemovePlayer(s0, p, ranks) ==
    LET s == [s0 EXCEPT !.last = [NoLast EXCEPT !.op = "remove_player", !.pid = p]]
    IN IF ~IsSeated(s, p) THEN Reject(s0, "remove_player", p, "not at the table")
       ELSE LET s1 == [LeaveTablePosition(s, p) EXCEPT
                          !.seats[SeatOf(s, p)] = NoPlayer,
                          !.last.result = "accept"]
            IN IF NumSeated(s1) < 2 /\ s1.status = "in_progress"
               THEN LET s2 == [s1 EXCEPT !.status = "waiting_for_players"]
                    IN IF s2.round.open
                       THEN DetermineWinnerAndDistributePot(
                                [s2 EXCEPT !.round = NoRound], TRUE, ranks)
                       ELSE s2
               ELSE s1

(***************************************************************************)
(* The second table (game_manager_oop.py)                                  *)
(***************************************************************************)
\* the fields of State that belong to one Table and its seat states
TableOf(s) ==
    [status |-> s.status, seats |-> s.seats, chips |-> s.chips, bet |-> s.bet,
     hstatus |-> s.hstatus, lastAct |-> s.lastAct, hole |-> s.hole,
     cards |-> s.cards, pot |-> s.pot, community |-> s.community,
     dealer |-> s.dealer, handNo |-> s.handNo, round |-> s.round,
     viewers |-> s.viewers, viewing |-> s.viewing]

\* the same state with the two tables exchanged: an operation of table T2
\* is the operation applied to Swap(s), exchanged back
Swap(s) ==
    LET o == s.other
    IN [status |-> o.status, seats |-> o.seats, chips |-> o.chips, bet |-> o.bet,
        hstatus |-> o.hstatus, lastAct |-> o.lastAct, hole |-> o.hole,
        cards |-> o.cards, pot |-> o.pot, community |-> o.community,
        dealer |-> o.dealer, handNo |-> o.handNo, round |-> o.round,
        viewers |-> o.viewers, viewing |-> o.viewing,
        balance |-> s.balance, last |-> s.last, other |-> TableOf(s)]

\* the result t of an operation applied to Swap(s), as a state of T1
AtOther(t) == [Swap(t) EXCEPT !.last.tid = "T2"]

(***************************************************************************)
(* Snapshots (table_oop.py, player_oop.py)                                 *)
(***************************************************************************)
\* Player.get_all_seated_tables
SeatedTables(s, p) ==
    {tb \in Tables : IF tb = "T1" THEN IsSeated(s, p) ELSE IsSeated(Swap(s), p)}

\* Player.get_all_viewing_tables
ViewingTables(s, p) ==
    {tb \in Tables : IF tb = "T1" THEN p \in s.viewing ELSE p \in s.other.viewing}

\* a key Player.to_dict leaves out of the dictionary
Absent == -1

\* Player.to_dict giving the hand whoever asks
PlayerToDictWithHand(s, p, includePrivate) ==
    LET seatedHere == IsSeated(s, p)
    IN [id |-> p,
        total_account_chips |-> s.balance[p],
        seated_tables |-> SeatedTables(s, p),
        viewing_tables |-> ViewingTables(s, p),
        is_viewing |-> ~seatedHere /\ p \in s.viewing,
        chips |-> IF seatedHere THEN s.chips[p] ELSE 0,
        seat_number |-> IF seatedHere THEN SeatOf(s, p) ELSE Absent,
        current_bet |-> IF seatedHere THEN s.bet[p] ELSE 0,
        last_action |-> IF seatedHere THEN s.lastAct[p] ELSE "NONE",
        hand_status |-> IF seatedHere THEN s.hstatus[p] ELSE "NOT_SEATED",
        hand |-> IF seatedHere THEN s.cards[p] ELSE <<>>,
        cards_count |-> IF seatedHere THEN Absent ELSE 0]

\* Player.to_dict(include_private_data, table_id) for this table
PlayerToDict(s, p, includePrivate) ==
    LET seatedHere == IsSeated(s, p)
    IN [id |-> p,
        total_account_chips |-> s.balance[p],
        seated_tables |-> SeatedTables(s, p),
        viewing_tables |-> ViewingTables(s, p),
        is_viewing |-> ~seatedHere /\ p \in s.viewing,
        chips |-> IF seatedHere THEN s.chips[p] ELSE 0,
        seat_number |-> IF seatedHere THEN SeatOf(s, p) ELSE Absent,
        current_bet |-> IF seatedHere THEN s.bet[p] ELSE 0,
        last_action |-> IF seatedHere THEN s.lastAct[p] ELSE "NONE",
        hand_status |-> IF seatedHere THEN s.hstatus[p] ELSE "NOT_SEATED",
        hand |-> IF seatedHere /\ includePrivate THEN s.cards[p] ELSE <<>>,
        cards_count |-> IF seatedHere /\ includePrivate THEN Absent
                        ELSE IF seatedHere THEN Len(s.cards[p]) ELSE 0]

\* Table.to_dict(requesting_player_id); NoPlayer is None.  The lists of
\* players and viewers are given as the set of their entries.
ToDict(s, requester) ==
    [status |-> s.status,
     players |-> {PlayerToDict(s, p, p = requester) :
                     p \in {u \in Users : IsSeated(s, u)}},
     viewers |-> {PlayerToDict(s, p, FALSE) : p \in s.viewers},
     community_cards |-> s.community,
     pot |-> TotalPotSize(s),
     round_status |-> IF s.round.open THEN s.round.status ELSE "None",
     is_game_started |-> s.status = "in_progress",
     dealer |-> s.dealer,
     hand_number |-> s.handNo]

(***************************************************************************)
(* HandEvaluator (hand_evaluator_oop.py).  A card is <<rank, suit>>; the   *)
(* evaluator's c.rank.value is Card.get_rank_value and c.suit is           *)
(* Card.get_suit; a hand is the tuple (HandRank, cards, kickers).          *)
(***************************************************************************)
\* HandRank
HIGH_CARD == 1
PAIR == 2
TWO_PAIR == 3
THREE_OF_A_KIND == 4
STRAIGHT == 5
FLUSH == 6
FULL_HOUSE == 7
FOUR_OF_A_KIND == 8
STRAIGHT_FLUSH == 9
ROYAL_FLUSH == 10

\* Card.get_rank_value: the index of the rank in Card.RANKS, from 0
RankValue(c) == (CHOOSE i \in 1..Len(RANKS) : RANKS[i] = c[1]) - 1

\* Card.get_suit
SuitOf(c) == c[2]

\* sorted(cards, key=rank value, reverse=True): stable, so cards of one rank
\* keep their order
RECURSIVE SortByRankDesc(_)
SortByRankDesc(cs) ==
    IF cs = <<>> THEN <<>>
    ELSE LET c == Head(cs)
             rest == SortByRankDesc(Tail(cs))
             k == Cardinality({i \in 1..Len(rest) :
                                  RankValue(rest[i]) > RankValue(c)})
         IN SubSeq(rest, 1, k) \o <<c>> \o SubSeq(rest, k + 1, Len(rest))

\* itertools.combinations(cs, k), in its order
RECURSIVE Combinations(_, _)
Combinations(cs, k) ==
    IF k = 0 THEN << <<>> >>
    ELSE IF Len(cs) < k THEN <<>>
    ELSE LET withHead == Combinations(Tail(cs), k - 1)
         IN [i \in 1..Len(withHead) |-> <<Head(cs)>> \o withHead[i]]
            \o Combinations(Tail(cs), k)

\* [c for c in cards if ...]: the cards of the list that are in `keep`, in
\* the order of the list
Filter(cs, keep) ==
    LET F[i \in 0..Len(cs)] ==
            IF i = 0 THEN <<>>
            ELSE IF cs[i] \in keep THEN Append(F[i - 1], cs[i])
            ELSE F[i - 1]
    IN F[Len(cs)]

\* the keys of Counter(c.rank for c in cards), in the order of insertion
RECURSIVE RankKeys(_)
RankKeys(cs) ==
    IF cs = <<>> THEN <<>>
    ELSE LET v == RankValue(Head(cs))
         IN <<v>> \o RankKeys(Filter(Tail(cs),
                                     {c \in SeqToSet(cs) : RankValue(c) # v}))

\* Counter(c.rank for c in cards)[v]
RankCount(cs, v) == Cardinality({i \in 1..Len(cs) : RankValue(cs[i]) = v})

\* the keys whose count is n, in the order of insertion
KeysWithCount(cs, n) ==
    LET keys == RankKeys(cs)
        F[i \in 0..Len(keys)] ==
            IF i = 0 THEN <<>>
            ELSE IF RankCount(cs, keys[i]) = n THEN Append(F[i - 1], keys[i])
            ELSE F[i - 1]
    IN F[Len(keys)]

\* HandEvaluator._check_straight on rank values sorted high to low
CheckStraight(values) ==
    IF Len(values) < 5 THEN FALSE
    ELSE \/ \A i \in 1..(Len(values) - 1) : values[i] - 1 = values[i + 1]
         \/ SeqToSet(values) = {12, 3, 2, 1, 0}

\* HandEvaluator._get_hand_type_and_cards on five cards sorted high to low
GetHandTypeAndCards(cs) ==
    LET values == [i \in 1..Len(cs) |-> RankValue(cs[i])]
        is_straight == CheckStraight(values)
        is_flush == Cardinality({SuitOf(cs[i]) : i \in 1..Len(cs)}) = 1
        fours == KeysWithCount(cs, 4)
        threes == KeysWithCount(cs, 3)
        pairs == KeysWithCount(cs, 2)
        Hand(r, c, k) == [rank |-> r, cards |-> c, kickers |-> k]
        Of(v) == Filter(cs, {c \in SeqToSet(cs) : RankValue(c) = v})
        NotOf(v) ==
            SortByRankDesc(Filter(cs, {c \in SeqToSet(cs) : RankValue(c) # v}))
        InPairs == {c \in SeqToSet(cs) : RankValue(c) \in SeqToSet(pairs)}
        NotInPairs == SeqToSet(cs) \ InPairs
        Front(q, n) == SubSeq(q, 1, Min(n, Len(q)))
        Back(q, n) == SubSeq(q, Min(n, Len(q)) + 1, Len(q))
    IN IF is_straight /\ is_flush /\ values = <<12, 11, 10, 9, 8>>
         THEN Hand(ROYAL_FLUSH, cs, <<>>)
       ELSE IF is_straight /\ is_flush
         THEN Hand(STRAIGHT_FLUSH, cs, <<>>)
       ELSE IF fours # <<>>
         THEN Hand(FOUR_OF_A_KIND,
                   Of(fours[1]) \o Front(NotOf(fours[1]), 1),
                   Back(NotOf(fours[1]), 1))
       ELSE IF threes # <<>> /\ pairs # <<>>
         THEN Hand(FULL_HOUSE,
                   SortByRankDesc(Of(threes[Len(threes)])
                                  \o Of(pairs[Len(pairs)])),
                   <<>>)
       ELSE IF is_flush
         THEN Hand(FLUSH, cs, <<>>)
       ELSE IF is_straight
         THEN Hand(STRAIGHT, cs, <<>>)
       ELSE IF threes # <<>>
         THEN Hand(THREE_OF_A_KIND,
                   Of(threes[1]) \o Front(NotOf(threes[1]), 2),
                   Back(NotOf(threes[1]), 2))
       ELSE IF Len(pairs) = 2
         THEN Hand(TWO_PAIR,
                   SortByRankDesc(Filter(cs, InPairs))
                   \o Front(SortByRankDesc(Filter(cs, NotInPairs)), 1),
                   Back(SortByRankDesc(Filter(cs, NotInPairs)), 1))
       ELSE IF Len(pairs) = 1
         THEN Hand(PAIR,
                   SortByRankDesc(Of(pairs[1])) \o Front(NotOf(pairs[1]), 3),
                   Back(NotOf(pairs[1]), 3))
       ELSE Hand(HIGH_CARD, Front(cs, 5), Back(cs, 5))

\* one of the two loops of compare_hands: the first position where the rank
\* values differ decides, over the positions both lists have
CompareCards(cards1, cards2) ==
    LET differ == {i \in 1..Min(Len(cards1), Len(cards2)) :
                      RankValue(cards1[i]) # RankValue(cards2[i])}
    IN IF differ = {} THEN 0
       ELSE LET i == CHOOSE j \in differ : \A m \in differ : j <= m
            IN IF RankValue(cards1[i]) > RankValue(cards2[i]) THEN 1 ELSE -1

\* compare_hands deciding by the cards alone
CompareHandsByCards(hand1, hand2) ==
    IF CompareCards(hand1.cards, hand2.cards) # 0
      THEN CompareCards(hand1.cards, hand2.cards)
    ELSE CompareCards(hand1.kickers, hand2.kickers)

\* HandEvaluator.compare_hands: 1 if hand 1 wins, -1 if hand 2 wins, 0 tie
CompareHands(hand1, hand2) ==
    IF hand1.rank > hand2.rank THEN 1
    ELSE IF hand2.rank > hand1.rank THEN -1
    ELSE IF CompareCards(hand1.cards, hand2.cards) # 0
      THEN CompareCards(hand1.cards, hand2.cards)
    ELSE CompareCards(hand1.kickers, hand2.kickers)

\* the loop of evaluate_hand over the combinations still to look at
RECURSIVE BestOf(_, _)
BestOf(combos, best) ==
    IF combos = <<>> THEN best
    ELSE LET cur == GetHandTypeAndCards(SortByRankDesc(Head(combos)))
             better == \/ cur.rank > best.rank
                       \/ /\ cur.rank = best.rank
                          /\ CompareHands(cur, best) = 1
         IN BestOf(Tail(combos), IF better THEN cur ELSE best)

\* HandEvaluator.evaluate_hand
EvaluateHand(player_cards, community_cards) ==
    BestOf(Combinations(SortByRankDesc(player_cards \o community_cards), 5),
           [rank |-> HIGH_CARD, cards |-> <<>>, kickers |-> <<>>])

(***************************************************************************)
(* utils/poker_hand_evaluator.py: the score of the older evaluator         *)
(***************************************************************************)
\* card_rank: RANK_ORDER.index(card[0]), RANK_ORDER being Card.RANKS
CardRank(card) == RankValue(card)

\* is_straight
IsStraight(cs) ==
    LET ixs == {CardRank(cs[i]) : i \in 1..Len(cs)}
    IN \E ix \in ixs : \A j \in 0..4 : (ix - j) \in ixs

\* high_card_rank
HighCardRank(cs) ==
    CHOOSE v \in {CardRank(cs[i]) : i \in 1..Len(cs)} :
        \A i \in 1..Len(cs) : CardRank(cs[i]) <= v

\* the ranks that n of the cards have
RanksHeld(cs, n) ==
    {v \in {CardRank(cs[i]) : i \in 1..Len(cs)} : RankCount(cs, v) = n}

\* get_rank_value(counts, n)
GetRankValue(cs, n) ==
    CHOOSE v \in RanksHeld(cs, n) : \A w \in RanksHeld(cs, n) : w <= v

\* get_two_pair_score
GetTwoPairScore(cs) == SumOver([v \in 0..12 |-> v], RanksHeld(cs, 2))

\* score_five_card_hand
ScoreFiveCardHand(cs) ==
    LET flush == Cardinality({SuitOf(cs[i]) : i \in 1..Len(cs)}) = 1
        straight == IsStraight(cs)
    IN IF flush /\ straight THEN 800 + HighCardRank(cs)
       ELSE IF RanksHeld(cs, 4) # {} THEN 700 + GetRankValue(cs, 4)
       ELSE IF RanksHeld(cs, 3) # {} /\ RanksHeld(cs, 2) # {}
         THEN 600 + GetRankValue(cs, 3)
       ELSE IF flush THEN 500 + HighCardRank(cs)
       ELSE IF straight THEN 400 + HighCardRank(cs)
       ELSE IF RanksHeld(cs, 3) # {} THEN 300 + GetRankValue(cs, 3)
       ELSE IF Cardinality(RanksHeld(cs, 2)) = 2
         THEN 200 + GetTwoPairScore(cs)
       ELSE IF RanksHeld(cs, 2) # {} THEN 100 + GetRankValue(cs, 2)
       ELSE HighCardRank(cs)

\* evaluate_hand_strength: the best score over the combinations of five
RECURSIVE BestScore(_, _)
BestScore(combos, best) ==
    IF combos = <<>> THEN best
    ELSE BestScore(Tail(combos), Max(best, ScoreFiveCardHand(Head(combos))))

EvaluateHandStrength(cs) == BestScore(Combinations(cs, 5), 0)

\* a hole and a board given to the evaluators
Deal(h, b) == [hole |-> h, board |-> b]

\* the evaluator variable before any call
NoEvaluation ==
    [done |-> FALSE, op |-> "none",
     in1 |-> Deal(<<>>, <<>>), in2 |-> Deal(<<>>, <<>>),
     r1 |-> [rank |-> 0, cards |-> <<>>, kickers |-> <<>>],
     r2 |-> [rank |-> 0, cards |-> <<>>, kickers |-> <<>>],
     cmp |-> 0, score1 |-> 0, score2 |-> 0]

\* the snapshot variable before any to_dict call
NoSnapshot ==
    [taken |-> FALSE, requester |-> NoPlayer,
     dict |-> [status |-> "none", players |-> {}, viewers |-> {},
               community_cards |-> 0, pot |-> 0, round_status |-> "None",
               is_game_started |-> FALSE, dealer |-> NoDealer,
               hand_number |-> 0]]

(***************************************************************************)
(* Specification                                                           *)
(***************************************************************************)
\* the table, the players and the lobby after construction
InitTable ==
    /\ status = "waiting_for_players"
    /\ seats = [i \in 1..MaxSeats |-> NoPlayer]
    /\ balance = [u \in Users |-> InitialUserChips]
    /\ chips = [u \in Users |-> 0]
    /\ bet = [u \in Users |-> 0]
    /\ hstatus = [u \in Users |-> "NOT_SEATED"]
    /\ lastAct = [u \in Users |-> "NONE"]
    /\ hole = [u \in Users |-> 0]
    /\ cards = [u \in Users |-> <<>>]
    /\ pot = 0
    /\ community = 0
    /\ dealer = NoDealer
    /\ handNo = 0
    /\ round = NoRound
    /\ viewers = {}
    /\ viewing = {}
    /\ other = NoTable
    /\ last = NoLast
    /\ snap = NoSnapshot

Init ==
    /\ InitTable
    /\ ev = NoEvaluation

\* the seat each user asks for: users differ in name only, so one seat per
\* user covers every seating up to renaming
HomeSeat == [u \in Users |-> CASE u = "A" -> 1 [] u = "B" -> 2 [] OTHER -> 3]

\* the amounts worth submitting with an action: only BET and RAISE read it
AmountsFor(action) ==
    IF action \in {"BET", "RAISE"} THEN AmountInputs ELSE {<<>>}

\* BET and RAISE actions accepted so far in the round
RaisesInRound(r) ==
    Cardinality({i \in 1..Len(r.acts) : r.acts[i].a \in {"BET", "RAISE"}})

\* the strengths of a showdown are drawn only when hands are compared
LowRanks == [u \in Users |-> 1]

take_seat ==
    \E p \in Users :
        \E buyIn \in BuyIns[p] :
            /\ \E t \in {TakeSeat(State, p, HomeSeat[p], buyIn)} : Commit(t)
            /\ UNCHANGED <<snap, ev>>

start_new_hand ==
    /\ handNo < MaxHands
    /\ \E t \in {StartNewHand(State, LowRanks, FirstDeck)} : Commit(t)
    /\ UNCHANGED <<snap, ev>>

process_player_action ==
    \E p \in Users, action \in ActionKinds :
        \E amount \in AmountsFor(action) :
            /\ action \in {"BET", "RAISE"} => RaisesInRound(round) < MaxRaises
            /\ \E t \in {ProcessPlayerAction(State, p, action, amount, LowRanks)} :
                  IF t.last.compared
                  THEN \E ranks \in [Users -> Ranks] :
                        \E u \in {ProcessPlayerAction(State, p, action, amount, ranks)} : Commit(u)
                  ELSE Commit(t)
            /\ UNCHANGED <<snap, ev>>

Next ==
    \/ take_seat
    \/ start_new_hand
    \/ process_player_action

Spec == Init /\ [][Next]_vars

(***************************************************************************)
(* The lobby: seats, viewers and snapshots of the two tables, with hands   *)
(* started and abandoned but no betting action                             *)
(***************************************************************************)
\* the buy-in offered at table T2
OtherBuyIn == 100

take_seat_other ==
    /\ \E p \in Users :
          \E t \in {TakeSeat(Swap(State), p, HomeSeat[p], OtherBuyIn)} :
              Commit(AtOther(t))
    /\ UNCHANGED <<snap, ev>>

add_viewer ==
    /\ \E p \in Users, tb \in Tables :
          IF tb = "T1"
          THEN \E t \in {AddViewer(State, p)} : Commit(t)
          ELSE \E t \in {AddViewer(Swap(State), p)} : Commit(AtOther(t))
    /\ UNCHANGED <<snap, ev>>

add_player_to_table_as_viewer ==
    /\ \E p \in Users, tb \in Tables :
          IF tb = "T1"
          THEN \E t \in {AddPlayerToTableAsViewer(State, p)} : Commit(t)
          ELSE \E t \in {AddPlayerToTableAsViewer(Swap(State), p)} :
                  Commit(AtOther(t))
    /\ UNCHANGED <<snap, ev>>

remove_viewer ==
    /\ \E p \in Users, tb \in Tables :
          IF tb = "T1"
          THEN \E t \in {RemoveViewer(State, p)} : Commit(t)
          ELSE \E t \in {RemoveViewer(Swap(State), p)} : Commit(AtOther(t))
    /\ UNCHANGED <<snap, ev>>

remove_player ==
    /\ \E p \in Users, tb \in Tables :
          IF tb = "T1"
          THEN \E t \in {RemovePlayer(State, p, LowRanks)} : Commit(t)
          ELSE \E t \in {RemovePlayer(Swap(State), p, LowRanks)} :
                  Commit(AtOther(t))
    /\ UNCHANGED <<snap, ev>>

\* start_new_hand on T1, the deck shuffled
start_new_hand_shuffled ==
    /\ handNo < MaxHands
    /\ \E deck \in Shuffles :
          \E t \in {StartNewHand(State, LowRanks, deck)} : Commit(t)
    /\ UNCHANGED <<snap, ev>>

\* Table.to_dict of T1: nothing of the table is assigned
to_dict ==
    /\ \E requester \in Users \cup {NoPlayer} :
          /\ snap' = [taken |-> TRUE, requester |-> requester,
                      dict |-> ToDict(State, requester)]
          /\ last' = [NoLast EXCEPT !.op = "to_dict", !.pid = requester,
                                    !.result = "accept"]
    /\ UNCHANGED <<status, seats, balance, chips, bet, hstatus, lastAct, hole,
                   cards, pot, community, dealer, handNo, round, viewers,
                   viewing, other, ev>>

NextLobby ==
    \/ take_seat
    \/ take_seat_other
    \/ add_viewer
    \/ add_player_to_table_as_viewer
    \/ remove_viewer
    \/ remove_player

SpecLobby == Init /\ [][NextLobby]_vars

\* remove_player on T1 while a hand is in progress
remove_player_in_hand ==
    /\ status = "in_progress"
    /\ \E p \in Users :
          \E t \in {RemovePlayer(State, p, LowRanks)} : Commit(t)
    /\ UNCHANGED <<snap, ev>>

\* start_new_hand on T1 whatever the status, a hand in progress included
start_new_hand_again ==
    /\ handNo < MaxDeals
    /\ \E t \in {StartNewHand(State, LowRanks, FirstDeck)} : Commit(t)
    /\ UNCHANGED <<snap, ev>>

NextRestart ==
    \/ take_seat
    \/ remove_player_in_hand
    \/ start_new_hand_again

SpecRestart == Init /\ [][NextRestart]_vars

NextDeal ==
    \/ take_seat
    \/ start_new_hand_shuffled
    \/ to_dict

SpecDeal == Init /\ [][NextDeal]_vars

(***************************************************************************)
(* Hands played one after another without bets or raises: players fold,    *)
(* check, call or go all-in, go broke, and the next hand is started        *)
(***************************************************************************)
\* the actions that read no amount
PlainActions == {"FOLD", "CHECK", "CALL", "ALL_IN"}

\* process_player_action on T1 with an action that takes no amount
process_plain_action ==
    /\ \E p \in Users, action \in PlainActions :
          \E t \in {ProcessPlayerAction(State, p, action, <<>>, LowRanks)} :
              IF t.last.compared
              THEN \E ranks \in [Users -> Ranks] :
                      \E u \in {ProcessPlayerAction(State, p, action, <<>>, ranks)} :
                          Commit(u)
              ELSE Commit(t)
    /\ UNCHANGED <<snap, ev>>

NextSeries ==
    \/ take_seat
    \/ start_new_hand_again
    \/ process_plain_action

SpecSeries == Init /\ [][NextSeries]_vars

(***************************************************************************)
(* Two tables in play: players A and B sit and play hands at both          *)
(***************************************************************************)
\* the players who sit at both tables
Regulars == {"A", "B"}


\* GameManager.add_player_to_table_as_player, the player and the table found
AddPlayerToTableAsPlayer(s0, p, seat, buyIn) ==
    IF s0.balance[p] < buyIn
    THEN Reject(s0, "take_seat", NoPlayer, "insufficient chips")
    ELSE TakeSeat(s0, p, seat, buyIn)

\* the state an operation of table tb acts on
Seen(tb) == IF tb = "T1" THEN State ELSE Swap(State)

\* the state after an operation of table tb has led to t
After(tb, t) == IF tb = "T1" THEN t ELSE AtOther(t)

\* The calls drawn at the two tables are those past the first test of the
\* operation (a seat asked by a player not seated there, an action by the
\* player whose turn it is, a seated player leaving): the calls that test
\* refuses assign nothing and are drawn in the specifications of one table.
add_player_to_table_as_player ==
    /\ \E p \in Regulars, tb \in Tables :
          /\ ~IsSeated(Seen(tb), p)
          /\ Commit(After(tb, AddPlayerToTableAsPlayer(Seen(tb), p, HomeSeat[p],
                                                      OtherBuyIn)))
    /\ UNCHANGED <<snap, ev>>

start_new_hand_at ==
    /\ \E tb \in Tables :
          /\ Seen(tb).handNo < MaxHands
          /\ Commit(After(tb, StartNewHand(Seen(tb), LowRanks, FirstDeck)))
    /\ UNCHANGED <<snap, ev>>

process_player_action_at ==
    /\ \E p \in Regulars, tb \in Tables, action \in PlainActions :
          /\ Seen(tb).status = "in_progress" /\ Seen(tb).round.open
          /\ ~NotTurnOf(Seen(tb).round, p)
          /\ \E t \in {ProcessPlayerAction(Seen(tb), p, action, <<>>, LowRanks)} :
                IF t.last.compared
                THEN \E ranks \in [Users -> Ranks] :
                        Commit(After(tb, ProcessPlayerAction(Seen(tb), p, action,
                                                            <<>>, ranks)))
                ELSE Commit(After(tb, t))
    /\ UNCHANGED <<snap, ev>>

remove_player_at ==
    /\ \E p \in Regulars, tb \in Tables :
          /\ IsSeated(Seen(tb), p)
          /\ Commit(After(tb, RemovePlayer(Seen(tb), p, LowRanks)))
    /\ UNCHANGED <<snap, ev>>

\* Table.end_hand
end_hand ==
    /\ \E tb \in Tables :
          Commit(After(tb, [EndHand(Seen(tb)) EXCEPT
                               !.last = [NoLast EXCEPT !.op = "end_hand",
                                                       !.result = "accept"]]))
    /\ UNCHANGED <<snap, ev>>

NextTables ==
    \/ add_player_to_table_as_player
    \/ start_new_hand_at
    \/ process_player_action_at
    \/ remove_player_at
    \/ end_hand

SpecTables == Init /\ [][NextTables]_vars

\* the holes and boards the evaluators are called with: flops and one river,
\* with holes that make every category, the wheel and its neighbours
Deals ==
    LET X3 == <<<<"K", "S">>, <<"K", "H">>, <<"2", "D">>>>
        Y3 == <<<<"A", "H">>, <<"K", "D">>, <<"Q", "C">>>>
        F3 == <<<<"Q", "S">>, <<"J", "S">>, <<"T", "S">>>>
        S3 == <<<<"5", "S">>, <<"4", "S">>, <<"3", "S">>>>
        W5 == <<<<"5", "C">>, <<"4", "D">>, <<"3", "H">>, <<"2", "S">>,
                <<"9", "D">>>>
    IN {Deal(<<<<"K", "D">>, <<"2", "C">>>>, X3),
        Deal(<<<<"A", "S">>, <<"Q", "D">>>>, X3),
        Deal(<<<<"K", "D">>, <<"K", "C">>>>, X3),
        Deal(<<<<"7", "C">>, <<"3", "D">>>>, X3),
        Deal(<<<<"A", "S">>, <<"K", "C">>>>, Y3),
        Deal(<<<<"J", "S">>, <<"T", "S">>>>, Y3),
        Deal(<<<<"9", "S">>, <<"2", "S">>>>, Y3),
        Deal(<<<<"A", "S">>, <<"K", "S">>>>, F3),
        Deal(<<<<"9", "S">>, <<"8", "S">>>>, F3),
        Deal(<<<<"2", "S">>, <<"3", "S">>>>, F3),
        Deal(<<<<"A", "S">>, <<"2", "S">>>>, S3),
        Deal(<<<<"7", "S">>, <<"6", "S">>>>, S3),
        Deal(<<<<"6", "D">>, <<"2", "D">>>>, S3),
        Deal(<<<<"A", "D">>, <<"2", "D">>>>, S3),
        Deal(<<<<"A", "S">>, <<"K", "S">>>>, W5),
        Deal(<<<<"6", "S">>, <<"K", "H">>>>, W5),
        Deal(<<<<"A", "C">>, <<"9", "C">>>>, W5),
        Deal(<<<<"K", "C">>, <<"Q", "D">>>>, W5),
        Deal(<<<<"Q", "S">>, <<"J", "C">>>>, W5),
        Deal(<<<<"9", "S">>, <<"9", "H">>>>, W5),
        Deal(<<<<"A", "H">>, <<"6", "H">>>>, W5)}

\* everything but the evaluator variable
tableVars ==
    <<status, seats, balance, chips, bet, hstatus, lastAct, hole, cards, pot,
      community, dealer, handNo, round, viewers, viewing, other, last, snap>>

\* the evaluators are about to be called for two players
InitEval ==
    /\ InitTable
    /\ \E d1 \in Deals, d2 \in Deals :
          ev = [NoEvaluation EXCEPT !.in1 = d1, !.in2 = d2]

\* evaluate_hand for the two players and compare_hands on the two results
compare_hands ==
    /\ ~ev.done
    /\ LET r1 == EvaluateHand(ev.in1.hole, ev.in1.board)
           r2 == EvaluateHand(ev.in2.hole, ev.in2.board)
       IN ev' = [ev EXCEPT !.done = TRUE, !.op = "compare_hands",
                           !.r1 = r1, !.r2 = r2,
                           !.cmp = CompareHands(r1, r2)]
    /\ UNCHANGED tableVars

\* evaluate_hand_strength of the older evaluator for two players
evaluate_hand_strength ==
    /\ ~ev.done
    /\ ev' = [ev EXCEPT
                 !.done = TRUE, !.op = "evaluate_hand_strength",
                 !.score1 = EvaluateHandStrength(ev.in1.hole \o ev.in1.board),
                 !.score2 = EvaluateHandStrength(ev.in2.hole \o ev.in2.board)]
    /\ UNCHANGED tableVars

NextEval ==
    \/ compare_hands
    \/ evaluate_hand_strength

SpecEval == InitEval /\ [][NextEval]_vars

(***************************************************************************)
(* Properties                                                              *)
(***************************************************************************)
\* stacks of the seated players + pot + round bets not yet collected
ChipsInPlay(s) ==
    SeatedStacks(s) + TotalPotSize(s) + RoundContribution(s.round.bets)

\* the step is an action that process_action accepted
AcceptedAction == last'.op = "action" /\ last'.inner = "accept"

\* the step is start_new_hand starting a hand
HandStart == last'.op = "start_new_hand" /\ last'.result = "accept"

\* C1: from start_new_hand, blinds included, until payout begins, every
\* accepted action and every collection of round bets leaves the sum of the
\* seated players' stacks, the pot and the uncollected round bets unchanged:
\* after the blinds it is the sum of the stacks the hand started with, and
\* an accepted action keeps it, up to the moment a payout begins.
C1_ChipConservation ==
    [][/\ HandStart => ChipsInPlay(State)' = SeatedStacks(State)
       /\ AcceptedAction =>
             IF last'.payout
             THEN last'.stacksAtPayout + last'.potAtPayout = ChipsInPlay(State)
             ELSE ChipsInPlay(State)' = ChipsInPlay(State)]_vars

\* C1 witness: an accepted action closed a round and its bets went to the pot
C1_Witness ==
    /\ last.op = "action" /\ last.inner = "accept"
    /\ last.collected /\ ~last.payout
    /\ last.potAfter > last.potBefore
    /\ status = "in_progress"

\* what an action must leave alone when it is refused: the round, every
\* player's stack, bet in hand, hand status and last action, and the pot
Untouched ==
    UNCHANGED <<round, chips, bet, hstatus, lastAct, pot, status, seats,
                balance, hole, cards, community, dealer, handNo, viewers,
                viewing, other>>

\* C2: an action submitted for a player who is not the current actor of the
\* open betting round is rejected, and the round, every player's stack, bet
\* in hand, hand status and last action, and the pot are unchanged.
C2_TurnLegality ==
    [][(last'.op = "action" /\ last'.pid # CurrentPlayer(round))
           => (last'.result = "reject" /\ Untouched)]_vars

\* C2 witness: with a round in progress, a seated player in the hand who is
\* not the current actor has just been refused
C2_Witness ==
    /\ last.op = "action" /\ last.result = "reject"
    /\ last.why = "not your turn"
    /\ round.open /\ round.status = "in_progress"
    /\ last.pid \in SeqToSet(round.players)
    /\ hstatus[last.pid] = "ACTIVE"
    /\ CurrentPlayer(round) \notin {NoPlayer, last.pid}
\* the accepted actions of the round so far are all of kind `kind`
AllActs(acts, kind) == \A i \in 1..Len(acts) : acts[i].a = kind

\* C3: in a round with no outstanding bet and N >= 2 active players who
\* check in turn, the round is in progress after each of the first N-1
\* checks and completed at the N-th; the collection then succeeds and
\* leaves the pot unchanged.
C3_ClosureByChecks ==
    (/\ last.op = "action" /\ last.inner = "accept"
     /\ ~last.preflop /\ last.nActive >= 2
     /\ last.acts # <<>> /\ AllActs(last.acts, "CHECK"))
        => /\ Len(last.acts) < last.nActive => last.roundStatus = "in_progress"
           /\ Len(last.acts) = last.nActive =>
                 /\ last.roundStatus = "completed"
                 /\ last.collected
                 /\ last.potAfter = last.potBefore
\* the round's accepted actions so far are one BET followed by CALLs only
BetThenCalls(acts) ==
    /\ acts # <<>>
    /\ acts[1].a = "BET"
    /\ \A i \in 2..Len(acts) : acts[i].a = "CALL"

\* C4: in a round of N active players where one bets b and the others call
\* in turn, the round is in progress until the (N-1)-th call and completed
\* right after it, and the collection adds exactly N * b to the pot.
C4_ClosureByBetAndCalls ==
    (/\ last.op = "action" /\ last.inner = "accept"
     /\ BetThenCalls(last.acts))
        => /\ Len(last.acts) < last.nActive => last.roundStatus = "in_progress"
           /\ Len(last.acts) = last.nActive =>
                 /\ last.roundStatus = "completed"
                 /\ last.collected
                 /\ last.potAfter = last.potBefore + last.nActive * last.acts[1].n

\* C4 witness: three active players, a bet and two calls, the round collected
C4_Witness ==
    /\ last.op = "action" /\ last.inner = "accept"
    /\ BetThenCalls(last.acts)
    /\ last.nActive = 3 /\ Len(last.acts) = 3
    /\ last.roundStatus = "completed" /\ last.collected
\* the most player p may win given everyone's contribution to the hand:
\* from each contributor, no more than p put in
WinCap(contrib, p) ==
    SumOver([q \in Users |-> Min(contrib[q], contrib[p])], Users)

\* C5: a non-folded all-in player wins from each contributor at most the
\* amount the all-in player contributed; chips above that level go only to
\* the players who contributed them.
C5_SidePotEligibility ==
    last.payout =>
        \A p \in last.allin : last.paid[p] <= WinCap(last.contrib, p)

\* C5 scenario: A all-in for 50, B and C in for 150 each, A paid all 350
C5_Scenario ==
    /\ last.payout
    /\ last.contrib = [u \in Users |-> IF u = "A" THEN 50 ELSE 150]
    /\ "A" \in last.allin
    /\ last.potAtPayout = 350
    /\ last.paid["A"] = 350
\* C6: at every payout the chips credited to the winners equal the pot just
\* before payout, so the table stacks after end_hand sum to the stacks plus
\* the pot before payout.
C6_PayoutConservesChips ==
    last.payout =>
        /\ SumOver(last.paid, Users) = last.potAtPayout
        /\ SeatedStacks(State) = last.stacksAtPayout + last.potAtPayout
\* the preconditions an action of player p can violate in state s
Violates(s, p, action, amount) ==
    LET toCall == AmountToCall(s, p)
        given == amount # <<>> /\ amount[1] > 0
    IN \/ action = "CHECK" /\ toCall > 0
       \/ action = "CALL" /\ s.chips[p] < toCall
       \/ action \in {"BET", "RAISE"} /\ ~given
       \/ action \in {"BET", "RAISE"} /\ given /\ amount[1] > s.chips[p]
       \/ action = "BET" /\ s.round.maxBet > 0
       \/ /\ action = "RAISE" /\ given /\ amount[1] < s.chips[p]
          /\ s.bet[p] + amount[1] - s.round.maxBet < MinRaiseAmount(s.round)

\* states s and t differ at most in what the last operation reported
SameGame(s, t) == [s EXCEPT !.last = NoLast] = [t EXCEPT !.last = NoLast]

\* C7: when the current actor's action violates a precondition (CHECK with
\* an amount to call, an unaffordable CALL, BET or RAISE, BET over a bet,
\* RAISE under the minimum, a missing or non-positive amount), process_action
\* returns a rejection and the round, the player's stack, bet, status and
\* last action, and the pot are unchanged.
C7_RejectionsDoNotMutate ==
    LET p == CurrentPlayer(round)
    IN (p # NoPlayer /\ hstatus[p] = "ACTIVE") =>
           \A action \in ActionKinds, amount \in AmountInputs :
               Violates(State, p, action, amount) =>
                   LET t == ProcessAction(State, p, action, amount)
                   IN t.last.inner = "reject" /\ SameGame(State, t)

\* C7 witness: the current actor's raise under the minimum has been refused
C7_Witness ==
    /\ last.op = "action" /\ last.inner = "reject"
    /\ last.why = "raise too small"
    /\ last.pid = CurrentPlayer(round)
\* C8: whatever action and amount the current actor of an in-progress round
\* submits, process_action finishes by returning accept or reject; no error
\* of a chip stack or a player escapes it as an exception.
C8_FailuresAreValues ==
    last.op = "action" => last.inner # "raise"
\* C9: in the pre-flop round, while the other players only call the big
\* blind, the round does not close before the big-blind poster has had a
\* turn.
C9_BigBlindOption ==
    (/\ last.op = "action" /\ last.inner = "accept"
     /\ last.preflop
     /\ AllActs(last.acts, "CALL")
     /\ \A i \in 1..Len(last.acts) : last.acts[i].p # last.bb)
        => last.roundStatus = "in_progress"

\* C9 scenario: two players with 1000 each and blinds 5/10; the small blind
\* has called, the round is closed and the flop is out with pot 20 and
\* stacks 990/990, before any turn of the big blind
C9_Scenario ==
    /\ last.op = "action" /\ last.inner = "accept" /\ last.preflop
    /\ last.acts = <<[p |-> "B", a |-> "CALL", n |-> 5, up |-> FALSE]>>
    /\ last.bb = "A"
    /\ last.roundStatus = "completed"
    /\ pot = 20 /\ chips["A"] = 990 /\ chips["B"] = 990
    /\ NumSeated(State) = 2
    /\ community = 3
\* C10: whenever two or more non-folded players (active or all-in) remain
\* when the hand is paid out, their hands are compared only with all five
\* community cards on the board, also when players are all-in before the
\* river.
C10_ShowdownUsesFinalBoard ==
    (last.payout /\ last.compared /\ last.shown >= 2) => last.board = 5

\* the seated players who have not folded (dealt in and ACTIVE or ALL_IN)
NonFolded(s) == {u \in Users : IsSeated(s, u) /\ InHand(s, u)}

\* C11: as soon as all players but one have folded, the hand goes directly
\* to payout: no further community card is revealed, no hand is evaluated,
\* the remaining player's stack grows by the whole pot including the bets of
\* the round just closed, and the hand ends; also when other players are
\* seated but not dealt in.
C11_EarlyWin ==
    [][(/\ AcceptedAction /\ last'.action = "FOLD"
        /\ Cardinality(NonFolded(State)) = 2)
          => LET w == CHOOSE u \in NonFolded(State) : u # last'.pid
             IN /\ last'.payout /\ ~last'.compared
                /\ last'.board = community
                /\ chips'[w] = chips[w] + pot + RoundContribution(round.bets)
                /\ status' # "in_progress" /\ ~round'.open]_vars

\* C11 scenario: two players dealt in and a third seated during the hand;
\* one of the two folds before the flop, and the pot is paid without a
\* showdown only after the flop has been opened
C11_Scenario ==
    /\ last.op = "action" /\ last.action = "FOLD" /\ last.inner = "accept"
    /\ last.preflop /\ last.payout /\ ~last.compared
    /\ last.board = 3
    /\ NumSeated(State) = 3

\* C12: a hand begins only when the table status is READY_TO_START;
\* start_new_hand called in any other status, in particular while a hand is
\* IN_PROGRESS, changes neither the pot, the players' bets and cards, the
\* hand number nor the status.
C12_HandStartGuarded ==
    [][(last'.op = "start_new_hand" /\ status # "ready_to_start")
          => UNCHANGED <<pot, bet, hole, cards, handNo, status>>]_vars

\* C12 scenario: a second hand has been started over a hand in progress
C12_Scenario ==
    /\ last.op = "start_new_hand" /\ last.result = "accept"
    /\ handNo = 2 /\ status = "in_progress"
    /\ NumSeated(State) = 2
    /\ pot = 15
    /\ SeatedStacks(State) + pot < SumOver([u \in Users |-> InitialUserChips - balance[u]], Users)

\* the table `tb` of state s
TableAt(s, tb) == IF tb = "T1" THEN TableOf(s) ELSE s.other

\* the step is a take_seat that returned True
SeatTaken == last'.op = "take_seat" /\ last'.result = "accept"

\* C13: a successful take_seat decreases the player's off-table balance by
\* exactly buyIn, sets the player's stack at that table to buyIn, puts the
\* player in exactly the requested seat, and removes the player from the
\* table's viewer map and the table from the player's viewing set.
C13_TakeSeatEffect ==
    [][SeatTaken =>
          LET p == last'.pid
              before == TableAt(State, last'.tid)
              after == IF last'.tid = "T1" THEN TableOf(State)' ELSE other'
          IN /\ balance'[p] = balance[p] - last'.buyIn
             /\ after.chips[p] = last'.buyIn
             /\ after.seats = [before.seats EXCEPT ![last'.seat] = p]
             /\ p \notin after.viewers
             /\ p \notin after.viewing]_vars

\* C13 witness: a player who was viewing both tables has taken a seat at T1
\* and still views T2
C13_Witness ==
    /\ last.op = "take_seat" /\ last.result = "accept" /\ last.tid = "T1"
    /\ last.watched
    /\ seats[last.seat] = last.pid
    /\ chips[last.pid] = last.buyIn
    /\ last.pid \notin viewers
    /\ last.pid \in other.viewers

\* C14: a take_seat that returns failure leaves the seat map, the seated
\* players, the viewer map and the player's viewing set, the player's
\* off-table balance and table stack, and the table status unchanged.
C14_RejectedSeatNoMutation ==
    [][(last'.op = "take_seat" /\ last'.result = "reject") => Untouched]_vars

\* C14 scenario: the only viewer asked for a seat with a buy-in of 0; the
\* request was refused, the table has lost its viewer and nobody is seated
C14_Scenario ==
    /\ last.op = "take_seat" /\ last.result = "reject"
    /\ last.why = "buy-in error" /\ last.watched
    /\ viewers = {} /\ viewing = {}
    /\ NumSeated(State) = 0
    /\ balance = [u \in Users |-> InitialUserChips]
    /\ other = NoTable

\* player p is both seated at and a viewer of the table tbl
SeatedAndViewing(tbl, p) ==
    /\ \E i \in 1..MaxSeats : tbl.seats[i] = p
    /\ p \in tbl.viewers \cup tbl.viewing

\* C15: in every state reached by take_seat, add_viewer (directly or through
\* the game manager), remove_viewer and remove_player, no player is both
\* seated at and viewing the same table.
C15_SeatedXorViewing ==
    \A p \in Users, tb \in Tables : ~SeatedAndViewing(TableAt(State, tb), p)

\* C15 witness: one player seated at T1 and viewing T2, another seated at
\* both tables
C15_Witness ==
    /\ \E p \in Users :
          /\ IsSeated(State, p) /\ p \in other.viewers /\ p \in other.viewing
    /\ \E q \in Users : IsSeated(State, q) /\ IsSeated(Swap(State), q)

\* C16: once a player's hand status is FOLDED or ALL_IN, no player action,
\* turn advance, round collection or phase advance changes that player's
\* hand status or hole cards while the hand goes on (until end_hand or the
\* next start_new_hand resets the hand state).
C16_FoldedAllInFrozen ==
    [][(/\ last'.op # "start_new_hand"
        /\ status = "in_progress" /\ status' = "in_progress")
          => \A p \in Users :
                hstatus[p] \in {"FOLDED", "ALL_IN"} =>
                    /\ hstatus'[p] = hstatus[p]
                    /\ hole'[p] = hole[p]
                    /\ cards'[p] = cards[p]]_vars

\* C16 witness: the flop is out after the pre-flop round was collected, and
\* a player who folded before still holds both hole cards as FOLDED
C16_Witness ==
    /\ last.op = "action" /\ last.inner = "accept" /\ last.collected
    /\ status = "in_progress" /\ community = 3
    /\ \E p \in Users :
          /\ p # last.pid
          /\ hstatus[p] = "FOLDED" /\ hole[p] = 2 /\ Len(cards[p]) = 2

\* the pairs of hole cards a shuffle can deal to a player
HoleValues == {<<d[2 * k - 1], d[2 * k]>> : d \in Shuffles, k \in 1..3}

\* the hole-card assignments that give every player as many cards as `held`
\* does, and the same cards to the players of `same`
OtherHoleCards(held, same) ==
    {c \in [Users -> HoleValues \cup {<<>>}] :
        \A u \in Users :
            /\ Len(c[u]) = Len(held[u])
            /\ (u \in same => c[u] = held[u])}

\* the entries of a snapshot that carry a hand
WithHand(dict) == {e \in dict.players \cup dict.viewers : e.hand # <<>>}

\* the public snapshot is the same for any
\* two table states that differ only in the values of the hole cards, and a
\* snapshot taken for a requesting player carries the hole cards of that
\* player only and does not depend on those of the others.
SnapshotHidesHoleCards ==
    /\ \A c \in OtherHoleCards(cards, {}) :
          ToDict([State EXCEPT !.cards = c], NoPlayer) = ToDict(State, NoPlayer)
    /\ \A r \in Users :
          /\ \A e \in WithHand(ToDict(State, r)) : e.id = r /\ e.hand = cards[r]
          /\ \A c \in OtherHoleCards(cards, {r}) :
                ToDict([State EXCEPT !.cards = c], r) = ToDict(State, r)
    /\ last.op = "to_dict" => snap.dict = ToDict(State, snap.requester)

\* to_dict called again for the same requester, with no mutation in between,
\* returns what it returned before
SnapshotIdempotent ==
    [][(/\ last.op = "to_dict" /\ last'.op = "to_dict"
        /\ snap'.requester = snap.requester)
          => snap'.dict = snap.dict]_vars

\* C17: to_dict is a pure function of the public state.  The public snapshot
\* does not depend on the values of the hole cards, a snapshot for a requesting
\* player carries the hole cards of that player only, and two calls for the
\* same requester with no mutation in between return the same dictionary.
C17_SnapshotPure == []SnapshotHidesHoleCards /\ SnapshotIdempotent

\* C17 witness: during a hand with two cards dealt to each of three players,
\* the public snapshot has just been taken and shows counts only
C17_Witness ==
    /\ last.op = "to_dict" /\ snap.taken /\ snap.requester = NoPlayer
    /\ status = "in_progress"
    /\ \A u \in Users : Len(cards[u]) = 2
    /\ Cardinality(snap.dict.players) = 3
    /\ \A e \in snap.dict.players : e.hand = <<>> /\ e.cards_count = 2

\* the cards a player combines: hole cards and board
Combined(d) == SeqToSet(d.hole) \cup SeqToSet(d.board)

\* the sets of five of the given cards
Fives(S) == {F \in SUBSET S : Cardinality(F) = 5}

\* the rank values of a set of cards, and how many of the cards have value v
ValuesIn(F) == {RankValue(c) : c \in F}

Holding(F, v) == Cardinality({c \in F : RankValue(c) = v})

\* five cards of consecutive ranks, the ace counting low in A-2-3-4-5
IsRun(F) ==
    /\ Cardinality(ValuesIn(F)) = 5
    /\ \/ \E lo \in 0..8 : ValuesIn(F) = lo..(lo + 4)
       \/ ValuesIn(F) = {12, 0, 1, 2, 3}

\* the category of five cards by the rules of poker, 1 (high card) to 10
CategoryOf(F) ==
    LET flush == Cardinality({SuitOf(c) : c \in F}) = 1
        held == {Holding(F, v) : v \in ValuesIn(F)}
        twos == {v \in ValuesIn(F) : Holding(F, v) = 2}
    IN CASE IsRun(F) /\ flush /\ ValuesIn(F) = 8..12 -> 10
         [] IsRun(F) /\ flush /\ ValuesIn(F) # 8..12 -> 9
         [] 4 \in held -> 8
         [] 3 \in held /\ 2 \in held -> 7
         [] flush /\ ~IsRun(F) -> 6
         [] IsRun(F) /\ ~flush -> 5
         [] 3 \in held /\ 2 \notin held -> 4
         [] Cardinality(twos) = 2 -> 3
         [] Cardinality(twos) = 1 /\ 3 \notin held -> 2
         [] OTHER -> 1

\* the best category a player can make
BestCategory(d) ==
    CHOOSE k \in 1..10 :
        /\ \E F \in Fives(Combined(d)) : CategoryOf(F) = k
        /\ \A F \in Fives(Combined(d)) : CategoryOf(F) <= k

\* two hands have been evaluated and compared
Compared == ev.done /\ ev.op = "compare_hands"

\* C18: the evaluator gives each hand its category, numbered from high card
\* (1) to royal flush (10), and compare_hands declares the hand of the higher
\* category the winner whatever the ranks of the cards.
C18_CategoryOrder ==
    Compared =>
        /\ ev.r1.rank = BestCategory(ev.in1)
        /\ ev.r2.rank = BestCategory(ev.in2)
        /\ BestCategory(ev.in1) > BestCategory(ev.in2) => ev.cmp = 1
        /\ BestCategory(ev.in1) < BestCategory(ev.in2) => ev.cmp = -1

\* C18 witness: K-K-K-2-2 has been compared with A-A-K-K-Q and has won
C18_Witness ==
    /\ Compared
    /\ ValuesIn(Combined(ev.in1)) = {11, 0} /\ ev.r1.rank = FULL_HOUSE
    /\ ValuesIn(Combined(ev.in2)) = {12, 11, 10} /\ ev.r2.rank = TWO_PAIR
    /\ Cardinality(Combined(ev.in1)) = 5 /\ Cardinality(Combined(ev.in2)) = 5
    /\ ev.cmp = 1

\* the top of the best straight among the player's cards, a five for the wheel
StraightTop(d) ==
    LET TopOf(F) == IF ValuesIn(F) = {12, 0, 1, 2, 3} THEN 3
                    ELSE CHOOSE v \in ValuesIn(F) : \A w \in ValuesIn(F) : w <= v
        runs == {F \in Fives(Combined(d)) : IsRun(F)}
    IN CHOOSE v \in {TopOf(F) : F \in runs} :
           \A F \in runs : TopOf(F) <= v

\* the player's best hand is the wheel
HoldsWheel(d) == BestCategory(d) = STRAIGHT /\ StraightTop(d) = 3

\* the player's best hand is a straight higher than the wheel
HoldsHigherStraight(d) == BestCategory(d) = STRAIGHT /\ StraightTop(d) > 3

\* C19: A-2-3-4-5 not of one suit is a straight and the lowest one:
\* compare_hands places it below every other straight, and the older
\* evaluator scores it as a straight below every other straight.
C19_WheelLowest ==
    /\ (Compared /\ HoldsWheel(ev.in1)) =>
          /\ ev.r1.rank = STRAIGHT
          /\ HoldsHigherStraight(ev.in2) => ev.cmp = -1
    /\ (ev.done /\ ev.op = "evaluate_hand_strength" /\ HoldsWheel(ev.in1)) =>
          /\ ev.score1 \in 400..499
          /\ HoldsHigherStraight(ev.in2) => ev.score1 < ev.score2

\* C19 scenario: the wheel has been compared with a six-high straight and
\* has been declared the winner
C19_Scenario ==
    /\ Compared
    /\ HoldsWheel(ev.in1) /\ Cardinality(Combined(ev.in1)) = 5
    /\ HoldsHigherStraight(ev.in2) /\ StraightTop(ev.in2) = 4
    /\ ev.r1.rank = STRAIGHT /\ ev.r2.rank = STRAIGHT
    /\ ev.cmp = 1

\* the rank values of a list of cards, in order
ValuesOf(cs) == [i \in 1..Len(cs) |-> RankValue(cs[i])]

\* the highest rank value among the player's cards
HighestValue(d) ==
    CHOOSE v \in ValuesIn(Combined(d)) : \A w \in ValuesIn(Combined(d)) : w <= v

\* the evaluated hand is five different cards of the player
FiveOf(r, d) ==
    /\ Len(r.cards) = 5
    /\ Cardinality(SeqToSet(r.cards)) = 5
    /\ SeqToSet(r.cards) \subseteq Combined(d)

\* C20: for two players on a common board evaluate_hand returns five of the
\* player's cards, and compare_hands reports a tie only when both hands have
\* the same category and the same five ranks; two high-card hands whose
\* highest cards differ are not a tie.
C20_TrueTiesOnly ==
    (Compared /\ ev.in1.board = ev.in2.board) =>
        /\ FiveOf(ev.r1, ev.in1)
        /\ FiveOf(ev.r2, ev.in2)
        /\ ev.cmp = 0 => /\ ev.r1.rank = ev.r2.rank
                         /\ ValuesOf(ev.r1.cards) = ValuesOf(ev.r2.cards)
        /\ (/\ BestCategory(ev.in1) = HIGH_CARD
            /\ BestCategory(ev.in2) = HIGH_CARD
            /\ HighestValue(ev.in1) # HighestValue(ev.in2)) => ev.cmp # 0

\* C20 scenario: on a common river a king-high hand and a queen-high hand
\* have been evaluated to no cards at all and compared as a tie
C20_Scenario ==
    /\ Compared
    /\ ev.in1.board = ev.in2.board /\ Len(ev.in1.board) = 5
    /\ BestCategory(ev.in1) = HIGH_CARD /\ HighestValue(ev.in1) = 11
    /\ BestCategory(ev.in2) = HIGH_CARD /\ HighestValue(ev.in2) = 10
    /\ ev.r1.cards = <<>> /\ ev.r2.cards = <<>>
    /\ ev.cmp = 0

\* the part of a table that is its own: the table's fields and every
\* player's seat state at it
IndependentPart(tbl) ==
    [status |-> tbl.status, seats |-> tbl.seats, pot |-> tbl.pot,
     community |-> tbl.community, dealer |-> tbl.dealer, round |-> tbl.round,
     chips |-> tbl.chips, bet |-> tbl.bet, hstatus |-> tbl.hstatus,
     hole |-> tbl.hole, cards |-> tbl.cards]

\* the operations that act on one table
TableOps == {"take_seat", "remove_player", "start_new_hand", "action", "end_hand"}

\* C21: an operation on one table (take_seat, remove_player, start_new_hand,
\* process_player_action, end_hand) leaves the status, seats, pot, community
\* cards, dealer and betting round of the other table unchanged, and the seat
\* state (stack, bet, hand status, hole cards) of every player at the other
\* table.
C21_TablesIndependent ==
    [][last'.op \in TableOps =>
          IF last'.tid = "T1"
          THEN IndependentPart(other)' = IndependentPart(other)
          ELSE IndependentPart(TableOf(State))' = IndependentPart(TableOf(State))]_vars

\* C21 witness: B has just gone all-in at T1 while the hand of T2, where B
\* sits too, is in progress with B still in it
C21_Witness ==
    /\ last.op = "action" /\ last.tid = "T1" /\ last.pid = "B"
    /\ last.action = "ALL_IN" /\ last.inner = "accept"
    /\ hstatus["B"] = "ALL_IN" /\ chips["B"] = 0
    /\ other.status = "in_progress" /\ other.round.open
    /\ other.hstatus["B"] = "ACTIVE" /\ other.chips["B"] > 0
    /\ other.hole["B"] = 2

\* every stack on the table, every bet and the pot are at least 0
StacksNonNegative ==
    /\ pot >= 0
    /\ \A u \in Users : chips[u] >= 0 /\ bet[u] >= 0 /\ round.bets[u] >= 0

\* Chips.remove refuses, on every stack of the table, the amounts above it
RemoveRefusesOverdraft ==
    \A u \in Users :
        \A amount \in {chips[u] + 1, chips[u] + BigBlind, InitialUserChips} :
            amount > chips[u] => ~ChipsRemoveOk(chips[u], amount)

RoundInProgress ==
    status = "in_progress" /\ CurrentPlayer(round) # NoPlayer

\* C23: whenever a betting round is IN_PROGRESS, after start_round with the
\* blinds and at the start of every later round included, the hand status of
\* the current actor is ACTIVE, never FOLDED or ALL_IN.
C23_ActorCanAct ==
    RoundInProgress => hstatus[CurrentPlayer(round)] = "ACTIVE"

\* C23 scenario: the flop has been opened and its round has started with a
\* player who went all-in before the flop as the current actor, two other
\* players being able to act
C23_Scenario ==
    /\ RoundInProgress /\ community = 3 /\ round.acts = <<>>
    /\ hstatus[CurrentPlayer(round)] = "ALL_IN"
    /\ \E u \in Users : hstatus[u] = "ACTIVE"

\* what process_action leaves when player p submits the action in this state
Acted(p, action, amount) ==
    ProcessAction([State EXCEPT !.last = [NoLast EXCEPT !.op = "action",
                                                        !.pid = p,
                                                        !.action = action]],
                  p, action, amount)

\* no player still in the hand has bet more in it than player q
HasHighestBet(s, q) ==
    \A o \in SeqToSet(s.round.players) : InHand(s, o) => s.bet[q] >= s.bet[o]

\* the players who moved the round's maximum up, in the order they did
Raisers(r) == SelectSeq(r.acts, LAMBDA e : e.up)

\* the player who opened the round (the first to act in it) or, once the
\* maximum has been raised, the player who raised it last
OpenerOrLastRaiser(r) ==
    IF Raisers(r) # <<>> THEN Raisers(r)[Len(Raisers(r))].p ELSE r.acts[1].p

\* the round is settled: every ACTIVE player of the round has put in the
\* round's maximum, which no player's bet exceeds, and the turn is at the
\* opener or last raiser
Settled(s) ==
    /\ \A q \in SeqToSet(s.round.players) :
          s.hstatus[q] = "ACTIVE" =>
              s.bet[q] >= s.round.maxBet /\ HasHighestBet(s, q)
    /\ s.round.idx < Len(s.round.players)
    /\ s.round.players[s.round.idx + 1] = OpenerOrLastRaiser(s.round)

\* C24: whenever process_action leaves the round COMPLETED, no non-folded,
\* non-all-in player of the round has a contribution below the round's
\* current maximum bet, and the turn pointer is at the player who opened the
\* round or made the last raise.
C24_CompletedMeansSettled ==
    \A p \in Users, action \in ActionKinds :
        \A amount \in AmountsFor(action) :
            Acted(p, action, amount).round.status = "completed"
                => Settled(Acted(p, action, amount))

\* C24 witness: a raise has been called all round by three players and the
\* round was completed with the turn back at the raiser
C24_Witness ==
    /\ last.op = "action" /\ last.action = "CALL" /\ last.inner = "accept"
    /\ last.roundStatus = "completed" /\ last.nActive = 3
    /\ \E i \in 1..Len(last.acts) : last.acts[i].up

\* the players of the round who have not folded
NotFolded(s) == {q \in SeqToSet(s.round.players) : s.hstatus[q] # "FOLDED"}

\* an accepted FOLD that leaves at most one player of the round not folded
\* leaves the round NO_ACTIVE_PLAYERS
FoldOutCloses ==
    \A p \in Users :
        (/\ Acted(p, "FOLD", <<>>).last.inner = "accept"
         /\ Cardinality(NotFolded(Acted(p, "FOLD", <<>>))) <= 1)
            => Acted(p, "FOLD", <<>>).round.status = "no_active_players"

\* C25: in the same step in which an accepted FOLD leaves at most one
\* non-folded player among the round's players the round status becomes
\* NO_ACTIVE_PLAYERS, whatever the outstanding contributions, and the round
\* is never IN_PROGRESS again (only start_new_hand makes another round).
C25_FoldOutClosesRound ==
    /\ []FoldOutCloses
    /\ [][(/\ last'.op = "action" /\ last'.action = "FOLD"
           /\ last'.inner = "accept"
           /\ last'.roundStatus = "no_active_players")
              => round'.status # "in_progress"]_vars
    /\ [][(/\ round.open /\ round.status = "no_active_players"
           /\ last'.op # "start_new_hand")
              => round'.status # "in_progress"]_vars

\* C25 witness: of three players one raised and the two others folded, the
\* second fold closing the round with the raise unmatched
C25_Witness ==
    /\ last.op = "action" /\ last.action = "FOLD" /\ last.inner = "accept"
    /\ last.roundStatus = "no_active_players" /\ last.nActive = 3
    /\ \E i \in 1..Len(last.acts) : last.acts[i].up

\* the chips player q moved in the first k accepted actions of the round
RECURSIVE PutIn(_, _, _)
PutIn(acts, k, q) ==
    IF k = 0 THEN 0
    ELSE PutIn(acts, k - 1, q) + (IF acts[k].p = q THEN acts[k].n ELSE 0)

\* player q's contribution to the round in progress: the whole bet before
\* the flop (the blinds are part of it), the chips of this round after it
InThisRound(s, q) ==
    IF s.round.preflop THEN s.bet[q] ELSE s.round.bets[q]

\* player q's contribution to the round after its first k accepted actions
InRoundAfter(s, q, k) ==
    InThisRound(s, q)
        - (PutIn(s.round.acts, Len(s.round.acts), q) - PutIn(s.round.acts, k, q))

\* the highest contribution to the round after its first k accepted actions
RoundMaxAfter(s, k) ==
    CHOOSE m \in {InRoundAfter(s, q, k) : q \in SeqToSet(s.round.players)} :
        \A q \in SeqToSet(s.round.players) : m >= InRoundAfter(s, q, k)

\* the highest contribution to the round now
RoundMax(s) == RoundMaxAfter(s, Len(s.round.acts))

\* by how much the k-th accepted action raised the highest contribution
RaiseSizeAt(s, k) == RoundMaxAfter(s, k) - RoundMaxAfter(s, k - 1)

\* the size of the previous raise in this round, 0 if there was none
PreviousRaise(s) ==
    LET ks == {k \in 1..Len(s.round.acts) : RaiseSizeAt(s, k) > 0}
    IN IF ks = {} THEN 0
       ELSE RaiseSizeAt(s, CHOOSE k \in ks : \A j \in ks : k >= j)

\* the minimum-raise rule on the contributions of this round
RaiseAllowed(s, p, a) ==
    /\ ChipsCanAfford(s.chips[p], a)
    /\ InThisRound(s, p) + a - RoundMax(s) >= Max(BigBlind, PreviousRaise(s))

\* the raise sizes submitted
RaiseSizes == {5, 10, 15, 20, 40}

\* player p is the current actor and can act
CanAct(p) ==
    status = "in_progress" /\ CurrentPlayer(round) = p /\ hstatus[p] = "ACTIVE"

\* C26: in every street a RAISE by the current actor that is not the whole
\* stack is accepted if and only if it is affordable and the resulting
\* contribution exceeds the round's current maximum by at least
\* max(big blind, size of the previous raise in this round), the sizes being
\* measured on this round's contributions, post-flop rounds included.
C26_MinimumRaise ==
    \A p \in Users, a \in RaiseSizes :
        (CanAct(p) /\ a # chips[p])
            => (Acted(p, "RAISE", <<a>>).last.inner = "accept"
                    <=> RaiseAllowed(State, p, a))

\* C26 scenario: the flop round opens with a player to act who carries a bet
\* from before the flop, and a raise of half a big blind is accepted
C26_Scenario ==
    /\ community = 3 /\ round.acts = <<>>
    /\ \E p \in Users :
          /\ CanAct(p) /\ bet[p] > 0 /\ chips[p] > 5
          /\ ~RaiseAllowed(State, p, 5)
          /\ Acted(p, "RAISE", <<5>>).last.inner = "accept"

\* the accepted actions of the round that raised the highest contribution
RaisesAt(s) == {k \in 1..Len(s.round.acts) : RaiseSizeAt(s, k) > 0}

\* the size of the last raise before the k-th accepted action, 0 if none
RaiseBefore(s, k) ==
    LET ks == {j \in RaisesAt(s) : j < k}
    IN IF ks = {} THEN 0
       ELSE RaiseSizeAt(s, CHOOSE j \in ks : \A i \in ks : j >= i)

\* the k-th accepted action is an all-in that raised the highest
\* contribution by less than the minimum raise
ShortAllInAt(s, k) ==
    /\ s.round.acts[k].a = "ALL_IN"
    /\ RaiseSizeAt(s, k) > 0
    /\ RaiseSizeAt(s, k) < Max(BigBlind, RaiseBefore(s, k))

\* the last raise of the round is a short all-in, and player p had acted and
\* matched the highest contribution before it
FacesShortAllIn(s, p) ==
    \E k \in RaisesAt(s) :
        /\ \A j \in RaisesAt(s) : j <= k
        /\ ShortAllInAt(s, k)
        /\ \E j \in 1..(k - 1) : s.round.acts[j].p = p
        /\ InRoundAfter(s, p, k - 1) = RoundMaxAfter(s, k - 1)

\* C27: after an all-in that raises the round's current maximum by less than
\* the minimum raise, a player who had already matched the previous maximum
\* may call the difference or fold, but a RAISE of that player is rejected.
C27_ShortAllInNoReopen ==
    \A p \in Users :
        (CanAct(p) /\ FacesShortAllIn(State, p))
            => /\ Acted(p, "FOLD", <<>>).last.inner = "accept"
               /\ ChipsCanAfford(chips[p], RoundMax(State) - InThisRound(State, p))
                      => Acted(p, "CALL", <<>>).last.inner = "accept"
               /\ \A a \in RaiseSizes :
                      Acted(p, "RAISE", <<a>>).last.inner # "accept"

\* C27 scenario: a player raised, another went all-in for less than a full
\* raise more, and the raiser, to act again, has a further raise accepted
C27_Scenario ==
    \E p \in Users :
        /\ CanAct(p) /\ FacesShortAllIn(State, p)
        /\ \E a \in RaiseSizes : /\ a < chips[p]
                                 /\ Acted(p, "RAISE", <<a>>).last.inner = "accept"

\* player p has nothing to call: the contribution to this round equals the
\* round's highest
NothingToCall(s, p) == InThisRound(s, p) = RoundMax(s)

\* the stacks, bets and pot amounts of the table
Amounts(s) == <<s.chips, s.bet, s.round.bets, s.pot>>

\* a CHECK of the current actor is accepted exactly when there is nothing to
\* call, apply_check gives the same verdict, and process_action moves no
\* chips on an accepted CHECK
CheckRule ==
    \A p \in Users :
        CanAct(p) =>
            /\ Acted(p, "CHECK", <<>>).last.inner = "accept"
                   <=> NothingToCall(State, p)
            /\ ApplyCheckRaises(InThisRound(State, p), RoundMax(State))
                   <=> ~NothingToCall(State, p)
            /\ Acted(p, "CHECK", <<>>).last.inner = "accept"
                   => Amounts(Acted(p, "CHECK", <<>>)) = Amounts(State)

\* C28: CHECK is accepted if and only if the current actor has nothing to
\* call (the contribution in this round equals the round's current maximum),
\* and an accepted CHECK changes no stack, bet or pot amount, in the step of
\* process_player_action as a whole too; pre-flop for the blind posters and
\* in every post-flop round.
C28_CheckRule ==
    /\ []CheckRule
    /\ [][(last'.op = "action" /\ last'.action = "CHECK"
              /\ last'.inner = "accept")
             => (chips' = chips /\ bet' = bet /\ pot' = pot)]_vars

\* C28 witness: after the flop a player carrying a bet from before the flop
\* has checked, and the check was accepted
C28_Witness ==
    /\ last.op = "action" /\ last.action = "CHECK" /\ last.inner = "accept"
    /\ community >= 3 /\ bet[last.pid] > 0

\* what an accepted ALL_IN of player p leaves, t, against the state before, s
AllInEffect(s, t, p) ==
    /\ t.chips[p] = 0
    /\ t.hstatus[p] = "ALL_IN"
    /\ t.bet[p] = s.bet[p] + s.chips[p]
    /\ t.round.bets[p] = s.round.bets[p] + s.chips[p]
    /\ \A q \in Users \ {p} :
          /\ t.chips[q] = s.chips[q] /\ t.bet[q] = s.bet[q]
          /\ t.round.bets[q] = s.round.bets[q]
    /\ t.pot = s.pot
    /\ (t.bet[p] > s.round.maxBet) <=> (InThisRound(t, p) > RoundMax(s))
    /\ IF t.bet[p] > s.round.maxBet
       THEN t.round.maxBet = t.bet[p] /\ t.round.starter = p
       ELSE t.round.maxBet = s.round.maxBet /\ t.round.starter = s.round.starter

\* C29: an accepted ALL_IN sets the player's table stack to 0 and the hand
\* status to ALL_IN, adds exactly the former stack to the player's
\* contribution (round and hand), and raises the round's current maximum to
\* the player's new total if and only if that total exceeds the previous
\* maximum; otherwise the maximum and the closing point are unchanged.
C29_AllInEffect ==
    \A p \in Users :
        (CanAct(p) /\ Acted(p, "ALL_IN", <<>>).last.inner = "accept")
            => AllInEffect(State, Acted(p, "ALL_IN", <<>>), p)

\* C29 witness: a player went all-in for less than the round's maximum and
\* the round goes on with the maximum and the closing point of another player
C29_Witness ==
    /\ last.op = "action" /\ last.action = "ALL_IN" /\ last.inner = "accept"
    /\ round.status = "in_progress"
    /\ hstatus[last.pid] = "ALL_IN" /\ chips[last.pid] = 0
    /\ bet[last.pid] < round.maxBet /\ round.starter # last.pid

\* the seats of the players dealt into the hand
DealtInSeats ==
    {i \in 1..MaxSeats : seats[i] # NoPlayer /\ hole[seats[i]] = 2}

\* how many seats to the left of seat i the seat k is (1 to MaxSeats)
StepsLeft(i, k) == ((k - i - 1) % MaxSeats) + 1

\* the first dealt-in seat to the left of seat i
LeftOfSeat(i) ==
    CHOOSE k \in DealtInSeats :
        \A j \in DealtInSeats : StepsLeft(i, k) <= StepsLeft(i, j)

\* a hand has just been started with three or more players dealt in
HandStartedThreeHanded ==
    /\ last.op = "start_new_hand" /\ last.result = "accept"
    /\ status = "in_progress" /\ community = 0
    /\ Cardinality(DealtInSeats) >= 3

\* the small blind is in front of the first dealt-in seat left of the dealer
\* and the big blind in front of the next one
BlindsLeftOfDealer ==
    LET sb == LeftOfSeat(dealer)
        bb == LeftOfSeat(sb)
    IN /\ bet[seats[sb]] = SmallBlindAmount
       /\ bet[seats[bb]] = BigBlind
       /\ \A i \in DealtInSeats \ {sb, bb} : bet[seats[i]] = 0

\* C30: in a hand with 3 or more dealt-in players the small blind is posted
\* by the first dealt-in seat left of the dealer, the big blind by the next
\* one, and the first player to act pre-flop is the first dealt-in player
\* left of the big-blind poster, not a blind poster.
C30_FirstToActLeftOfBigBlind ==
    HandStartedThreeHanded
        => /\ BlindsLeftOfDealer
           /\ CurrentPlayer(round)
                  = seats[LeftOfSeat(LeftOfSeat(LeftOfSeat(dealer)))]
           /\ bet[CurrentPlayer(round)] = 0

\* C30 scenario: three players are dealt in, the blinds are posted left of
\* the dealer, and the player to act first is the small-blind poster
C30_Scenario ==
    /\ HandStartedThreeHanded /\ BlindsLeftOfDealer
    /\ CurrentPlayer(round) = seats[LeftOfSeat(dealer)]
    /\ bet[CurrentPlayer(round)] = SmallBlindAmount

\* a hand has just been started with exactly two players dealt in
HandStartedHeadsUp ==
    /\ last.op = "start_new_hand" /\ last.result = "accept"
    /\ status = "in_progress" /\ community = 0
    /\ Cardinality(DealtInSeats) = 2

\* C31: in a 2-player hand the dealer seat posts the small blind and acts
\* first pre-flop, the other seat posts the big blind, and the pot after the
\* blinds equals small blind + big blind.
C31_HeadsUpBlinds ==
    HandStartedHeadsUp
        => /\ dealer \in DealtInSeats
           /\ bet[seats[dealer]] = SmallBlindAmount
           /\ bet[seats[LeftOfSeat(dealer)]] = BigBlind
           /\ CurrentPlayer(round) = seats[dealer]
           /\ pot = SmallBlindAmount + BigBlind

\* C31 scenario: two players are dealt in, the pot holds both blinds, and the
\* dealer seat has posted the big blind while the other seat has posted the
\* small blind and is to act
C31_Scenario ==
    /\ HandStartedHeadsUp /\ dealer \in DealtInSeats
    /\ pot = SmallBlindAmount + BigBlind
    /\ bet[seats[dealer]] = BigBlind
    /\ bet[seats[LeftOfSeat(dealer)]] = SmallBlindAmount
    /\ CurrentPlayer(round) = seats[LeftOfSeat(dealer)]

\* the seats whose player has chips on the table
StackedSeats == {i \in 1..MaxSeats : seats[i] # NoPlayer /\ chips[seats[i]] > 0}

\* the first seat after seat i, in cyclic seat-number order, whose player has
\* chips on the table
NextStackedSeat(i) ==
    CHOOSE k \in StackedSeats :
        \A j \in StackedSeats : StepsLeft(i, k) <= StepsLeft(i, j)

\* C32: each successful start_new_hand moves the dealer button to the first
\* seat after the previous dealer seat, in cyclic seat-number order, whose
\* player has chips > 0, also when the previous dealer's seat has become
\* empty or stackless, and the dealer seat is one of the players dealt in.
C32_DealerRotation ==
    [][(last'.op = "start_new_hand" /\ last'.result = "accept")
          => /\ dealer # NoDealer => dealer' = NextStackedSeat(dealer)
             /\ seats'[dealer'] # NoPlayer /\ hole'[seats'[dealer']] = 2]_vars

\* C32 scenario: the second hand has started after the player in the dealer
\* seat 2 left; the button is on seat 1 although seat 3, the next seat after
\* the previous dealer, holds a player with chips who is dealt in
C32_Scenario ==
    /\ last.op = "start_new_hand" /\ last.result = "accept"
    /\ last.dealerBefore = 2 /\ seats[2] = NoPlayer
    /\ dealer = 1 /\ DealtInSeats = {1, 3}

\* C33: start_new_hand with fewer than 2 seated players having chips > 0 fails
\* without starting anything: the hand number is not incremented, no cards
\* are dealt, no blinds are taken, no betting round is created and the
\* status does not become IN_PROGRESS.
C33_NoHandWithoutTwoStacks ==
    [][(last'.op = "start_new_hand" /\ Cardinality(StackedSeats) < 2)
          => /\ last'.result = "reject"
             /\ handNo' = handNo
             /\ hole' = hole /\ cards' = cards
             /\ chips' = chips /\ bet' = bet /\ pot' = pot
             /\ round' = round
             /\ status' # "in_progress"]_vars

\* C33 witness: two players are seated, one of them went broke in the hand
\* before, and start_new_hand was refused
C33_Witness ==
    /\ last.op = "start_new_hand" /\ last.result = "reject"
    /\ handNo = 1 /\ Cardinality(StackedSeats) = 1
    /\ \E i \in 1..MaxSeats : seats[i] # NoPlayer /\ chips[seats[i]] = 0
    /\ status = "ready_to_start"

\* the board goes from 0 to 3, from 3 to 4 or from 4 to 5 cards
NextStreet == <<community, community'>> \in {<<0, 3>>, <<3, 4>>, <<4, 5>>}

\* the step closed a betting round and collected its bets
RoundCollected ==
    /\ last'.op = "action" /\ last'.inner = "accept"
    /\ last'.roundStatus \in {"completed", "no_active_players"}
    /\ last'.collected

\* C34: within one hand the number of community cards takes only the values
\* 0, 3, 4, 5 and only in that order, a reveal happens only after the current
\* betting round reached a terminal status and was collected, each reveal
\* takes one burn card plus the revealed cards from the deck, and showdown
\* is entered only from 5 cards.
C34_StreetProgression ==
    /\ [](community \in {0, 3, 4, 5})
    /\ [][community' # community =>
             \/ community' = 0 /\ status' # "in_progress"
             \/ /\ NextStreet /\ RoundCollected
                /\ last'.drawn = community' - community + 1]_vars
    /\ [][(last'.payout /\ last'.compared) => last'.board = 5]_vars

\* C34 scenario: two players were all-in or called before the flop, and their
\* hands were compared and the pot paid with no community card on the board
C34_Scenario ==
    /\ last.op = "action" /\ last.payout /\ last.compared /\ last.shown >= 2
    /\ last.board = 0 /\ last.drawn = 0
    /\ status # "in_progress"

\* the table s as end_hand must leave it
HandCleared(s) ==
    /\ s.community = 0 /\ s.pot = 0 /\ TotalPotSize(s) = 0
    /\ ~s.round.open
    /\ \A u \in Users :
          IsSeated(s, u) =>
              /\ s.hole[u] = 0 /\ s.cards[u] = <<>> /\ s.bet[u] = 0
              /\ s.hstatus[u] = IF s.chips[u] = 0 THEN "SITTING_OUT"
                                ELSE "WAITING_FOR_NEW_HAND"
    /\ s.status = IF NumSeated(s) < 2 THEN "waiting_for_players"
                  ELSE "ready_to_start"

\* C35: after end_hand the community cards are empty, the pot total is 0, no
\* betting round exists, every seated player has no hole cards and bet 0 and
\* is SITTING_OUT with a table stack of 0 and WAITING_FOR_NEW_HAND otherwise,
\* and the table is WAITING_FOR_PLAYERS with fewer than 2 seated players and
\* READY_TO_START otherwise: for end_hand called in any reachable state, and
\* in every step that pays the pot and ends the hand.
C35_EndHandClears ==
    /\ []HandCleared(EndHand(State))
    /\ [][(last'.payout /\ last'.exc = "") => HandCleared(State')]_vars

\* C35 witness: the pot was paid and the hand ended with two players seated,
\* the loser broke and sitting out, the winner waiting for the next hand
C35_Witness ==
    /\ last.payout /\ last.exc = "" /\ HandCleared(State)
    /\ status = "ready_to_start"
    /\ \E u \in Users : IsSeated(State, u) /\ hstatus[u] = "SITTING_OUT"
    /\ \E u \in Users : IsSeated(State, u) /\ chips[u] > 0

\* the players seated while the hand was running
SeatedDuringHand ==
    {u \in Users : status = "in_progress" /\ hstatus[u] = "WAITING_FOR_NEW_HAND"}

\* C36: a take_seat that succeeds and brings the number of seated players to
\* 2 while the table is WAITING_FOR_PLAYERS makes it READY_TO_START; a
\* take_seat during IN_PROGRESS leaves the table IN_PROGRESS, the pot, the
\* board and the betting round as they were, and the new player waits for the
\* next hand: no hole cards, no bet and no place in the betting order for as
\* long as the hand runs.
C36_TakeSeatStatus ==
    /\ [][(last'.op = "take_seat" /\ last'.result = "accept") =>
            LET p == last'.pid
            IN /\ (status = "waiting_for_players" /\ NumSeated(State') = 2)
                     => status' = "ready_to_start"
               /\ status = "in_progress" =>
                     /\ status' = "in_progress"
                     /\ hstatus'[p] = "WAITING_FOR_NEW_HAND"
                     /\ hole'[p] = 0 /\ cards'[p] = <<>>
                     /\ round' = round /\ pot' = pot /\ community' = community
                     /\ \A u \in Users \ {p} :
                           hole'[u] = hole[u] /\ hstatus'[u] = hstatus[u]]_vars
    /\ [](\A u \in SeatedDuringHand :
             /\ hole[u] = 0 /\ bet[u] = 0
             /\ u \notin SeqToSet(round.players)
             /\ CurrentPlayer(round) # u)

\* C36 witness: a third player has just taken a seat while two players are in
\* a running hand with an open betting round
C36_Witness ==
    /\ last.op = "take_seat" /\ last.result = "accept"
    /\ status = "in_progress" /\ round.open /\ NumSeated(State) = 3
    /\ last.pid \in SeatedDuringHand
    /\ Cardinality(DealtInSeats) = 2

\* C37: every hand ends: in every state with the table IN_PROGRESS there is
\* a betting round with a current actor from whom at least FOLD is accepted,
\* so that a hand whose current actor keeps acting reaches end_hand.
C37_FoldAlwaysOpen ==
    status = "in_progress" =>
        /\ round.open
        /\ \E p \in Users :
              /\ CurrentPlayer(round) = p
              /\ Acted(p, "FOLD", <<>>).last.inner = "accept"

\* C37 scenario: the hand is running and its betting round is IN_PROGRESS
\* with an all-in player as the current actor, from whom no action is accepted
C37_Scenario ==
    /\ RoundInProgress /\ pot > 0
    /\ \E p \in Users :
          /\ CurrentPlayer(round) = p /\ hstatus[p] = "ALL_IN"
          /\ \A a \in PlainActions : Acted(p, a, <<>>).last.inner = "reject"
          /\ \A a \in RaiseSizes : Acted(p, "RAISE", <<a>>).last.inner = "reject"

\* remove_player has just emptied table T1 down to fewer than 2 seated
\* players while its hand was IN_PROGRESS with a betting round still open
LeftMidHand ==
    /\ last'.op = "remove_player" /\ last'.tid = "T1" /\ last'.result = "accept"
    /\ status = "in_progress" /\ round.open /\ round.status = "in_progress"
    /\ NumSeated(State') < 2

\* C38: leaving mid-hand destroys no chips: when remove_player during an
\* IN_PROGRESS hand leaves fewer than 2 seated players, the pot plus the
\* contributions of the still-open betting round are credited to the
\* remaining player and the leaver's table stack goes back to their
\* off-table balance.
C38_LeavingKeepsChips ==
    [][LeftMidHand =>
          /\ balance'[last'.pid] = balance[last'.pid] + chips[last'.pid]
          /\ \A q \in Users :
                IsSeated(State', q) =>
                    chips'[q] = chips[q] + pot + SumOver(round.bets, Users)]_vars

\* C38 scenario: a player left table T1 during its only hand, the remaining
\* player was paid the pot and holds less than the buy-in they sat down with
C38_Scenario ==
    /\ last.op = "remove_player" /\ last.tid = "T1" /\ last.payout
    /\ status = "waiting_for_players" /\ pot = 0 /\ ~round.open
    /\ \E q \in Users :
          /\ IsSeated(State, q) /\ last.paid[q] = last.potAtPayout
          /\ chips[q] < OtherBuyIn

\* C39: whenever the table status is READY_TO_START at least 2 players are
\* seated: a remove_player outside a hand that drops the number of seated
\* players below 2 returns the status to WAITING_FOR_PLAYERS.
C39_ReadyMeansTwoSeated ==
    status = "ready_to_start" => NumSeated(State) >= 2

\* C39 scenario: a player has just left table T1 outside a hand and one
\* player is seated
C39_Scenario ==
    /\ last.op = "remove_player" /\ last.tid = "T1" /\ last.result = "accept"
    /\ status # "in_progress" /\ handNo = 0
    /\ NumSeated(State) = 1

\* Table._small_blind: the small blinds a table of big blind BigBlind is
\* constructed with; the constructor stores the value and tests nothing
SmallBlinds == {2, 5}

\* start_new_hand has just posted the blinds, both posters affording them
BlindsJustPosted ==
    /\ last.op = "start_new_hand" /\ last.result = "accept"
    /\ status = "in_progress" /\ Len(round.players) >= 2
    /\ chips[round.players[1]] + bet[round.players[1]] >= BigBlind
    /\ chips[round.players[2]] + bet[round.players[2]] >= BigBlind

\* C40: blind amounts follow the table configuration: whatever small blind
\* the table was constructed with, half the big blind or not, a small-blind
\* poster who can afford it contributes exactly that small blind and a
\* big-blind poster who can afford it contributes exactly the big blind.
C40_BlindsFollowConfiguration ==
    \A small_blind \in SmallBlinds :
        BlindsJustPosted =>
            /\ bet[round.players[1]] = small_blind
            /\ bet[round.players[2]] = BigBlind

\* C40 scenario: the blinds of a hand have been posted and the small-blind
\* poster's contribution is not the small blind of every table configuration
C40_Scenario ==
    /\ BlindsJustPosted
    /\ bet[round.players[2]] = BigBlind
    /\ \E small_blind \in SmallBlinds : bet[round.players[1]] # small_blind
    /\ pot = bet[round.players[1]] + BigBlind
====
